---- MODULE Spec2Model ----
(***************************************************************************)
(* Conversation-state graph of src/src/qa.js: the LangGraph pipeline       *)
(* hydrate -> ingest -> rag -> summarize -> persist, the Redis adapter it  *)
(* uses (lazy singleton client, load, sanitising save) and the ask entry   *)
(* point.  Message contents are sequences of one-character strings, so the *)
(* <think> strip of mapMessagesForStorage is computed on characters.       *)
(***************************************************************************)
EXTENDS Integers, Sequences, FiniteSets, TLC

\* ------------------------------------------------------------------ bounds
MaxTurns == 2          \* calls of ask in one behaviour
MaxAttempts == 2 * MaxTurns   \* getRedisClient is called at most twice a turn
Procs == {1}           \* callers of ask that may have a turn in flight
MaxLines == 2          \* lines typed at the command line in one behaviour
MaxBuilds == 2         \* calls of buildOrLoadVectorStore in one behaviour

\* ------------------------------------------------------- values and texts
Undefined == "undefined"      \* the JavaScript undefined / null / unset value
Nullish(x) == x = Undefined

\* An optional value: <<>> when absent (undefined), <<v>> when present
None == <<>>
Some(v) == <<v>>

OpenTag == <<"<", "t", "h", "i", "n", "k", ">">>
CloseTag == <<"<", "/", "t", "h", "i", "n", "k", ">">>

Lower(c) ==
  CASE c = "T" -> "t" [] c = "H" -> "h" [] c = "I" -> "i"
    [] c = "N" -> "n" [] c = "K" -> "k" [] c = "E" -> "e"
    [] c = "X" -> "x" [] OTHER -> c

LowerSeq(s) == [i \in 1..Len(s) |-> Lower(s[i])]

IsSpace(c) == c \in {" ", "\n", "\t"}

\* s has the tag t (compared case-insensitively, flag i) at position i
HasAt(s, t, i) ==
  /\ i >= 1
  /\ i + Len(t) - 1 <= Len(s)
  /\ LowerSeq(SubSeq(s, i, i + Len(t) - 1)) = t

\* position of the first close tag starting at or after i, 0 when none
RECURSIVE FindClose(_, _)
FindClose(s, i) ==
  IF i > Len(s) THEN 0
  ELSE IF HasAt(s, CloseTag, i) THEN i
  ELSE FindClose(s, i + 1)

\* first position at or after i that is not white space
RECURSIVE SkipSpace(_, _)
SkipSpace(s, i) ==
  IF i > Len(s) THEN i
  ELSE IF IsSpace(s[i]) THEN SkipSpace(s, i + 1)
  ELSE i

\* content.replace(/<think>[\s\S]*?<\/think>\s*/gi, "") scanning from i
RECURSIVE StripFrom(_, _)
StripFrom(s, i) ==
  IF i > Len(s) THEN <<>>
  ELSE IF HasAt(s, OpenTag, i) /\ FindClose(s, i + Len(OpenTag)) # 0
       THEN StripFrom(s, SkipSpace(s, FindClose(s, i + Len(OpenTag)) + Len(CloseTag)))
       ELSE <<s[i]>> \o StripFrom(s, i + 1)

stripThinkFromContent(content) == StripFrom(content, 1)

\* ---------------------------------------------------------------- messages
\* A metadata object (additional_kwargs, response_metadata) is the set of its
\* <<key, value>> pairs; a message built from a text alone has none
MsgWith(t, c, kwargs, meta) ==
  [type |-> t, content |-> c, additional_kwargs |-> kwargs,
   response_metadata |-> meta]
Msg(t, c) == MsgWith(t, c, {}, {})
HumanMessage(c) == Msg("human", c)
AIMessage(c) == Msg("ai", c)
SystemMessage(c) == Msg("system", c)
\* new RemoveMessage({ id: REMOVE_ALL_MESSAGES })
RemoveAll == Msg("remove", <<>>)

IsRemove(m) == m.type = "remove"
IsSystem(m) == m.type = "system"

NotRemove(m) == ~IsRemove(m)
NotSystemNotRemove(m) == ~IsSystem(m) /\ ~IsRemove(m)

\* index of the last REMOVE_ALL marker of an update, 0 when it has none
RECURSIVE LastRemoveAll(_, _)
LastRemoveAll(s, i) ==
  IF i = 0 THEN 0
  ELSE IF IsRemove(s[i]) THEN i
  ELSE LastRemoveAll(s, i - 1)

\* a reducer that puts the update in front of the list
ReducerPrepends(left, right) ==
  IF LastRemoveAll(right, Len(right)) # 0
  THEN SubSeq(right, LastRemoveAll(right, Len(right)) + 1, Len(right))
  ELSE right \o left

\* messagesStateReducer(left, right): an update holding REMOVE_ALL replaces
\* the list by what follows the marker; otherwise the update is appended
\* (every message built by the graph carries a fresh id, so no id matches).
messagesStateReducer(left, right) ==
  IF LastRemoveAll(right, Len(right)) # 0
  THEN SubSeq(right, LastRemoveAll(right, Len(right)) + 1, Len(right))
  ELSE left \o right

\* ------------------------------------------------------------ configuration
\* A configured number as Number(x ?? d) sees it: unset, a finite number, or
\* a text that converts to NaN.
Unset == [kind |-> "unset", v |-> 0]
Num(n) == [kind |-> "num", v |-> n]
NaN == [kind |-> "nan", v |-> 0]
\* Number(x ?? d)
NumberOr(x, d) == IF x.kind = "unset" THEN Num(d) ELSE x
IsFinite(x) == x.kind = "num"

\* config.redis as qa.js reads it; a text field that is not set is Undefined
RedisUrl == "redis://store"
Configs ==
  { [url |-> RedisUrl, keyPrefix |-> Undefined, maxValueBytes |-> Unset,
     summaryKeepLastN |-> Unset, ttlSeconds |-> Unset],
    [url |-> RedisUrl, keyPrefix |-> "mem:", maxValueBytes |-> Num(230),
     summaryKeepLastN |-> Num(1), ttlSeconds |-> Unset],
    [url |-> Undefined, keyPrefix |-> Undefined, maxValueBytes |-> Unset,
     summaryKeepLastN |-> Unset, ttlSeconds |-> Unset] }

ThreadIds == {"t1", Undefined}

\* ------------------------------------------------------------ store adapter
\* redisKeyForThread: prefix ++ String(threadId || "default")
Falsy(x) == x = Undefined \/ x = ""

\* a key derivation that drops the thread identifier
KeyIgnoresThread(cfg, threadId) ==
  << IF Nullish(cfg.keyPrefix) THEN "rag:mem:" ELSE cfg.keyPrefix, "default" >>

\* a key derivation that ignores the configured prefix
KeyFixedPrefix(cfg, threadId) ==
  << "rag:mem:", IF Falsy(threadId) THEN "default" ELSE threadId >>

redisKeyForThread(cfg, threadId) ==
  << IF Nullish(cfg.keyPrefix) THEN "rag:mem:" ELSE cfg.keyPrefix,
     IF Falsy(threadId) THEN "default" ELSE threadId >>

Keys == { redisKeyForThread(c, t) : c \in Configs, t \in ThreadIds }

\* mapChatMessagesToStoredMessages / mapStoredMessagesToChatMessages
ToStored(m) ==
  [type |-> m.type,
   data |-> [content |-> m.content,
             additional_kwargs |-> m.additional_kwargs,
             response_metadata |-> m.response_metadata]]
FromStored(sm) ==
  MsgWith(sm.type, sm.data.content, sm.data.additional_kwargs,
          sm.data.response_metadata)

\* a strip that empties the metadata object
stripThinkFieldsDropsAll(obj) == {}

\* stripThinkFields: a copy of the object without its think key
stripThinkFields(obj) == {kv \in obj : kv[1] # "think"}

\* mapMessagesForStorage: stored form with the <think> segments stripped
mapMessagesForStorage(messages) ==
  [i \in 1..Len(messages) |->
     [ToStored(messages[i]) EXCEPT
        !.data.content = stripThinkFromContent(@),
        !.data.additional_kwargs = stripThinkFields(@),
        !.data.response_metadata = stripThinkFields(@)]]

\* a payload that also carries the retrieved context
buildRedisPayloadWithContext(messages, now) ==
  [schemaVersion |-> 1, updatedAt |-> now,
   messages |-> mapMessagesForStorage(messages),
   context |-> << <<"c", "1">> >>]

\* buildRedisPayload; updatedAt is Date.now(), here the logical clock
buildRedisPayload(messages, now) ==
  [schemaVersion |-> 1, updatedAt |-> now,
   messages |-> mapMessagesForStorage(messages)]

\* What GET returns for a key: null, a text that is not JSON, a JSON text
\* without a messages array, or JSON.stringify of a payload
NoValue == [kind |-> "null"]
Garbage == [kind |-> "garbage"]
NoMessagesJson == [kind |-> "json"]
JsonStringify(payload) == [kind |-> "payload", json |-> payload]
IsPayload(raw) == raw.kind = "payload"

\* a save that passes EX whatever the configured time-to-live is
SetOptionsAlwaysEX(cfg) == Some(NumberOr(cfg.ttlSeconds, 0).v)

\* the options of client.set in saveMessagesToRedis: { EX: ttlSeconds } when
\* Number(config.redis?.ttlSeconds ?? 0) is finite and positive, none else
SetOptions(cfg) ==
  IF IsFinite(NumberOr(cfg.ttlSeconds, 0)) /\ NumberOr(cfg.ttlSeconds, 0).v > 0
  THEN Some(NumberOr(cfg.ttlSeconds, 0).v)
  ELSE None

\* what the server holds after SET key value [EX seconds]: the value, and
\* the expiry it was written with
RedisSet(value, options) ==
  [kind |-> value.kind, json |-> value.json, ex |-> options]

\* Buffer.byteLength(JSON.stringify(payload)) for ASCII contents: the bytes
\* of the envelope, and for each message its wrapper and its content
EnvelopeBytes == 59
MessageBytes == 80
\* the bytes a metadata object adds to its "{}": each pair is a quoted
\* five-letter key, a colon and a quoted one-letter value, pairs are
\* separated by commas
PairBytes == 11
MetaBytes(obj) ==
  IF obj = {} THEN 0 ELSE (PairBytes + 1) * Cardinality(obj) - 1
RECURSIVE SumContent(_)
SumContent(stored) ==
  IF stored = <<>> THEN 0
  ELSE MessageBytes + Len(Head(stored).data.content)
         + MetaBytes(Head(stored).data.additional_kwargs)
         + MetaBytes(Head(stored).data.response_metadata)
         + SumContent(Tail(stored))
JsonBytes(payload) == EnvelopeBytes + SumContent(payload.messages)

\* an estimate that measures the contents as they are in memory
estimateUnsanitized(messages, now) ==
  JsonBytes([schemaVersion |-> 1, updatedAt |-> now,
             messages |-> [i \in 1..Len(messages) |-> ToStored(messages[i])]])

\* estimateRedisValueBytes: Buffer.byteLength(JSON.stringify(payload))
estimateRedisValueBytes(messages, now) ==
  JsonBytes(buildRedisPayload(messages, now))

\* loadMessagesFromRedis after the GET: JSON.parse throws on a text that is
\* not JSON; a null value or a value without a messages array gives []
\* a load whose JSON.parse never throws
LoadThrowsNever(raw) == FALSE
LoadThrows(raw) == raw = Garbage
\* a load that returns the stored messages last first
LoadResultReversed(raw) ==
  IF IsPayload(raw)
  THEN [i \in 1..Len(raw.json.messages) |->
          FromStored(raw.json.messages[Len(raw.json.messages) + 1 - i])]
  ELSE <<>>

LoadResult(raw) ==
  IF IsPayload(raw)
  THEN [i \in 1..Len(raw.json.messages) |-> FromStored(raw.json.messages[i])]
  ELSE <<>>

\* ------------------------------------------------------------------- inputs
Q1 == <<"h", "i">>
A1 == <<"o", "k">>
AThink == OpenTag \o <<"x">> \o CloseTag \o <<" ", "o", "k">>
Old1 == <<"o", "l", "d">>
Sys1 == <<"s", "y", "s">>
Chunk1 == <<"c", "1">>

Questions == {Q1}

\* what ragChain.invoke resolves to; a missing field is None
RagResults ==
  { [answer |-> Some(A1), output |-> None, context |-> Some(<<Chunk1>>)],
    [answer |-> Some(AThink), output |-> None, context |-> Some(<<>>)],
    [answer |-> None, output |-> None, context |-> None] }

\* outcomes of summarizationMiddleware(...).beforeModel
MiddlewareOutcomes == {"throw", "none", "removeOnly", "summary"}
SummaryText == <<"S">>
DefaultSummaryPrefix == <<"P", ":">>

\* the graph state a caller can pass to ask besides a state ask returned
FreshState(t) ==
  [messages |-> <<>>, threadId |-> t, input |-> <<>>, answer |-> None,
   context |-> None]
KeptState(t) ==
  [messages |-> <<SystemMessage(Sys1), HumanMessage(Old1)>>, threadId |-> t,
   input |-> <<>>, answer |-> Some(Old1), context |-> Some(<<Chunk1>>)]

\* -------------------------------------------------------------------- graph
START == "__start__"
END == "__end__"
\* the edges with ingest wired before hydrate
EdgesIngestFirst ==
  [n \in {START, "hydrate", "ingest", "rag", "summarize", "persist"} |->
     CASE n = START -> "ingest"
       [] n = "ingest" -> "hydrate"
       [] n = "hydrate" -> "rag"
       [] n = "rag" -> "summarize"
       [] n = "summarize" -> "persist"
       [] n = "persist" -> END]

\* addEdge(START, "hydrate") ... addEdge("persist", END)
Edges ==
  [n \in {START, "hydrate", "ingest", "rag", "summarize", "persist"} |->
     CASE n = START -> "hydrate"
       [] n = "hydrate" -> "ingest"
       [] n = "ingest" -> "rag"
       [] n = "rag" -> "summarize"
       [] n = "summarize" -> "persist"
       [] n = "persist" -> END]

\* ---------------------------------------------------------------- variables
VARIABLES
  config,              \* config.redis, fixed for a run of the program
  store,               \* the Redis server: key -> value
  storeUp,             \* the server answers connect, GET and SET
  redisClientPromise,  \* module variable: 0 (null) or the cached attempt
  attempts,            \* outcome of each connection promise created so far
  turns,               \* calls of ask so far; also the clock of Date.now()
  pc,                  \* per caller: idle, a graph node, END or rejected
  at,                  \* per caller: position inside an asynchronous node
  st,                  \* per caller: the graph state of the invocation
  awaiting,            \* per caller: the connection promise it awaits
  trace,               \* per caller: nodes started in this invocation
  completed,           \* per caller: nodes that returned in this invocation
  gets,                \* per caller: keys of the GETs issued in this invocation
  sets,                \* per caller: keys of the SETs issued in this invocation
  result,              \* per caller: what the last call of ask settled to
  obs,                 \* per caller: values seen along this invocation
  configFile,          \* config.json in the working directory
  processEnv,          \* process.env: variable name -> text, or undefined
  cachedConfig,        \* config module variable: null or the parsed file
  exported,            \* settings of the exported config object built so far
  cli,                 \* the command line loop: its position and last line
  milvus               \* the Milvus collection and the call that builds it

\* the variables of the configuration module and of the command line
outerVars == <<configFile, processEnv, cachedConfig, exported, cli, milvus>>
\* the variables of the question answering module
qaVars == <<config, store, storeUp, redisClientPromise, attempts, turns, pc, at,
            st, awaiting, trace, completed, gets, sets, result, obs>>

vars == <<config, store, storeUp, redisClientPromise, attempts, turns, pc, at,
          st, awaiting, trace, completed, gets, sets, result, obs,
          configFile, processEnv, cachedConfig, exported, cli, milvus>>

\* JSON values and JavaScript values of the configuration module
JUndefined == [t |-> "undefined"]
JNull == [t |-> "null"]
JStr(s) == [t |-> "string", s |-> s]
JNum(n) == [t |-> "number", n |-> n]
JNaN == [t |-> "nan"]
JBool(b) == [t |-> "boolean", b |-> b]
JObj(f) == [t |-> "object", o |-> f]

\* config.json: absent, not parseable, or holding a JSON value
FileMissing == [t |-> "missing"]
FileUnparsable == [t |-> "unparsable"]
FileJson(v) == [t |-> "file", json |-> v]

\* the command line loop before its first prompt
NoWork == [ask |-> 0, show |-> 0, rebuild |-> 0]
CliIdle == [prompts |-> 1, issued |-> 1, work |-> NoWork, closed |-> FALSE,
            lines |-> 0, line |-> <<>>, q |-> <<>>, invoked |-> <<>>,
            printed |-> <<>>, rebuilt |-> 0]

\* no collection on the server and no call of buildOrLoadVectorStore yet
MilvusIdle ==
  [exists |-> FALSE, rows |-> 0, at |-> "idle", version |-> "async",
   docs |-> 0, existed |-> FALSE, outcome |-> "none", calls |-> 0]

\* no config file, an empty environment, nothing loaded, the loop not started
OuterIdle ==
  /\ configFile = FileMissing
  /\ processEnv = [v \in {} |-> JUndefined]
  /\ cachedConfig = JNull
  /\ exported = <<>>
  /\ cli = CliIdle
  /\ milvus = MilvusIdle

NoResult == [kind |-> "none"]
Rejected == [kind |-> "rejected"]
\* ask's then-callback on the final graph state
AskResult(nextState) ==
  [kind |-> "resolved", state |-> nextState,
   answer |-> IF nextState.answer = None THEN <<>> ELSE nextState.answer[1],
   context |-> IF nextState.context = None THEN <<>> ELSE nextState.context[1]]

NoObs ==
  [prior |-> <<>>, storeAtAsk |-> NoValue, connHydrate |-> "none",
   connPersist |-> "none", hydrateErr |-> FALSE, restored |-> <<>>,
   afterHydrate |-> <<>>, afterIngest |-> <<>>, ragRes |-> None,
   ragErr |-> FALSE, raw |-> [kind |-> "notread"],
   afterRag |-> <<>>, mw |-> "notcalled", afterSummarize |-> <<>>,
   toPersist |-> <<>>, persistErr |-> FALSE, prevPersistErr |-> FALSE]

KeyOf(p) ==
  redisKeyForThread(config,
    IF Nullish(st[p].threadId) THEN "default" ELSE st[p].threadId)

\* what the server holds when the program starts: nothing, or values some
\* other writer left (not JSON under the named thread, JSON without a
\* messages array under the default thread)
InitialStores ==
  { [k \in Keys |-> NoValue],
    [k \in Keys |-> IF k[2] = "default" THEN NoMessagesJson ELSE Garbage] }

Init ==
  /\ config \in Configs
  /\ store \in InitialStores
  /\ storeUp \in BOOLEAN
  /\ OuterIdle
  /\ redisClientPromise = 0
  /\ attempts = <<>>
  /\ turns = 0
  /\ pc = [p \in Procs |-> "idle"]
  /\ at = [p \in Procs |-> "start"]
  /\ st = [p \in Procs |-> FreshState(Undefined)]
  /\ awaiting = [p \in Procs |-> 0]
  /\ trace = [p \in Procs |-> <<>>]
  /\ completed = [p \in Procs |-> <<>>]
  /\ gets = [p \in Procs |-> <<>>]
  /\ sets = [p \in Procs |-> <<>>]
  /\ result = [p \in Procs |-> NoResult]
  /\ obs = [p \in Procs |-> NoObs]

\* ------------------------------------------------------------------ actions
\* a node of caller p returns the state newSt: the graph follows its edge,
\* and at END ask's then-callback builds the resolved value
NodeReturns(p, node, newSt) ==
  /\ st' = [st EXCEPT ![p] = newSt]
  /\ completed' = [completed EXCEPT ![p] = Append(@, node)]
  /\ pc' = [pc EXCEPT ![p] = Edges[node]]
  /\ at' = [at EXCEPT ![p] = "start"]
  /\ result' = [result EXCEPT ![p] =
                  IF Edges[node] = END THEN AskResult(newSt) ELSE @]

WithMessages(s, update) ==
  [s EXCEPT !.messages = messagesStateReducer(@, update)]

\* a getRedisClient without the cache test: every call starts an attempt
getRedisClientAlwaysConnects(p) ==
  /\ Len(attempts) < MaxAttempts
  /\ attempts' = Append(attempts, "pending")
  /\ redisClientPromise' = Len(attempts) + 1
  /\ awaiting' = [awaiting EXCEPT ![p] = Len(attempts) + 1]

\* getRedisClient called by p: reuse the cached promise or start an attempt
getRedisClient(p) ==
  IF redisClientPromise # 0
  THEN /\ awaiting' = [awaiting EXCEPT ![p] = redisClientPromise]
       /\ UNCHANGED <<redisClientPromise, attempts>>
  ELSE /\ Len(attempts) < MaxAttempts
       /\ attempts' = Append(attempts, "pending")
       /\ redisClientPromise' = Len(attempts) + 1
       /\ awaiting' = [awaiting EXCEPT ![p] = Len(attempts) + 1]

\* a promise chain whose catch handler does not clear the cache
ConnectSettlesKeepsCache(a) ==
  /\ a \in 1..Len(attempts)
  /\ attempts[a] = "pending"
  /\ attempts' = [attempts EXCEPT ![a] =
                    IF ~Nullish(config.url) /\ storeUp
                    THEN "fulfilled" ELSE "rejected"]
  /\ UNCHANGED outerVars
  /\ UNCHANGED <<config, store, storeUp, redisClientPromise, turns, pc, at,
                 st, awaiting, trace, completed, gets, sets, result, obs>>

\* the promise chain of attempt a settles: the url check and connect(), and
\* on failure the catch handler that clears the cache and rethrows
ConnectSettles(a) ==
  /\ a \in 1..Len(attempts)
  /\ attempts[a] = "pending"
  /\ IF ~Nullish(config.url) /\ storeUp
     THEN /\ attempts' = [attempts EXCEPT ![a] = "fulfilled"]
          /\ UNCHANGED redisClientPromise
     ELSE /\ attempts' = [attempts EXCEPT ![a] = "rejected"]
          /\ redisClientPromise' = 0
  /\ UNCHANGED outerVars
  /\ UNCHANGED <<config, store, storeUp, turns, pc, at, st, awaiting, trace,
                 completed, gets, sets, result, obs>>

\* ask(ragApp, state, question): invoke({ ...state, input: question })
Ask(p, state, question) ==
  /\ pc[p] \in {"idle", END, "rejected"}
  /\ turns < MaxTurns
  /\ turns' = turns + 1
  /\ st' = [st EXCEPT ![p] =
              [state EXCEPT !.input = question,
                            !.messages = messagesStateReducer(<<>>, @)]]
  /\ pc' = [pc EXCEPT ![p] = Edges[START]]
  /\ at' = [at EXCEPT ![p] = "start"]
  /\ trace' = [trace EXCEPT ![p] = <<>>]
  /\ completed' = [completed EXCEPT ![p] = <<>>]
  /\ gets' = [gets EXCEPT ![p] = <<>>]
  /\ sets' = [sets EXCEPT ![p] = <<>>]
  /\ result' = [result EXCEPT ![p] = NoResult]
  /\ obs' = [obs EXCEPT ![p] =
               [NoObs EXCEPT !.prior = state.messages,
                             !.prevPersistErr =
                               pc[p] = END /\ obs[p].persistErr,
                             !.storeAtAsk =
                               store[redisKeyForThread(config,
                                 IF Nullish(state.threadId) THEN "default"
                                 ELSE state.threadId)]]]
  /\ UNCHANGED outerVars
  /\ UNCHANGED <<config, store, storeUp, redisClientPromise, attempts,
                 awaiting>>

\* the states the caller of p can pass: a new one, a hand-built one, or the
\* state the previous call returned
PriorStates(p) ==
  {FreshState(t) : t \in ThreadIds} \cup {KeptState("t1")}
    \cup (IF result[p].kind = "resolved" THEN {result[p].state} ELSE {})

\* hydrate, up to the await of getRedisClient in loadMessagesFromRedis
HydrateStart(p) ==
  /\ pc[p] = "hydrate" /\ at[p] = "start"
  /\ getRedisClient(p)
  /\ at' = [at EXCEPT ![p] = "client"]
  /\ trace' = [trace EXCEPT ![p] = Append(@, "hydrate")]
  /\ UNCHANGED outerVars
  /\ UNCHANGED <<config, store, storeUp, turns, pc, st, completed, gets, sets,
                 result, obs>>

\* the try block of hydrate throws: getRedisClient rejected, client.get
\* rejected, or JSON.parse threw
HydrateFails(p) ==
  \/ attempts[awaiting[p]] = "rejected"
  \/ ~storeUp
  \/ LoadThrows(store[KeyOf(p)])

\* a hydrate that appends the restored list to what the caller passed
HydrateReturnAppends(restored) == restored

\* a hydrate that clears the caller's list when nothing is stored
HydrateReturnClears(restored) == <<RemoveAll>> \o restored

\* a hydrate that never replaces the caller's list
HydrateReturnKeepsCaller(restored) == <<>>

\* the update hydrate returns for the restored list
HydrateReturn(restored) ==
  IF restored = <<>> THEN <<>> ELSE <<RemoveAll>> \o restored

\* a hydrate without the catch: the failure rejects the invocation
HydrateRethrows(p) ==
  /\ pc' = [pc EXCEPT ![p] = "rejected"]
  /\ result' = [result EXCEPT ![p] = Rejected]
  /\ UNCHANGED <<st, completed, at>>

\* catch (e) { console.warn(...); return {}; } of hydrate
HydrateCatch(p) == NodeReturns(p, "hydrate", st[p])

\* hydrate from the settled client promise to its return: GET, JSON.parse,
\* mapStoredMessagesToChatMessages
HydrateLoad(p) ==
  /\ pc[p] = "hydrate" /\ at[p] = "client"
  /\ attempts[awaiting[p]] # "pending"
  /\ gets' = [gets EXCEPT ![p] =
                IF attempts[awaiting[p]] = "fulfilled"
                THEN Append(@, KeyOf(p)) ELSE @]
  /\ IF HydrateFails(p)
     THEN HydrateCatch(p)
     ELSE NodeReturns(p, "hydrate",
            WithMessages(st[p], HydrateReturn(LoadResult(store[KeyOf(p)]))))
  /\ obs' = [obs EXCEPT ![p].connHydrate = attempts[awaiting[p]],
                        ![p].hydrateErr = HydrateFails(p),
                        ![p].raw =
                           IF attempts[awaiting[p]] = "rejected"
                           THEN [kind |-> "noclient"]
                           ELSE IF ~storeUp THEN [kind |-> "error"]
                           ELSE store[KeyOf(p)],
                        ![p].restored =
                           IF HydrateFails(p) THEN <<>>
                           ELSE LoadResult(store[KeyOf(p)]),
                        ![p].afterHydrate = st'[p].messages]
  /\ UNCHANGED outerVars
  /\ UNCHANGED <<config, store, storeUp, redisClientPromise, attempts, turns,
                 awaiting, trace, sets>>

\* ingest: { messages: [new HumanMessage(state.input)] }
Ingest(p) ==
  /\ pc[p] = "ingest"
  /\ trace' = [trace EXCEPT ![p] = Append(@, "ingest")]
  /\ NodeReturns(p, "ingest",
                 WithMessages(st[p], <<HumanMessage(st[p].input)>>))
  /\ obs' = [obs EXCEPT ![p].afterIngest =
               WithMessages(st[p], <<HumanMessage(st[p].input)>>).messages]
  /\ UNCHANGED outerVars
  /\ UNCHANGED <<config, store, storeUp, redisClientPromise, attempts, turns,
                 awaiting, gets, sets>>

\* String(res?.answer ?? res?.output) without the "" default
AnswerOfNoDefault(res) ==
  IF res.answer # None THEN res.answer[1]
  ELSE IF res.output # None THEN res.output[1]
  ELSE <<"u", "n", "d", "e", "f", "i", "n", "e", "d">>

\* String(res?.answer ?? res?.output ?? "")
AnswerOf(res) ==
  IF res.answer # None THEN res.answer[1]
  ELSE IF res.output # None THEN res.output[1]
  ELSE <<>>
\* res?.context ?? []
ContextOf(res) == IF res.context # None THEN res.context[1] ELSE <<>>

\* a rag node that returns the assistant message only, leaving the answer
\* and context channels as the caller passed them
RagReturnsMessagesOnly(p, res) ==
  /\ pc[p] = "rag"
  /\ trace' = [trace EXCEPT ![p] = Append(@, "rag")]
  /\ NodeReturns(p, "rag", WithMessages(st[p], <<AIMessage(AnswerOf(res))>>))
  /\ obs' = [obs EXCEPT ![p].ragRes = Some(res),
                        ![p].afterRag =
                           WithMessages(st[p],
                                        <<AIMessage(AnswerOf(res))>>).messages]
  /\ UNCHANGED outerVars
  /\ UNCHANGED <<config, store, storeUp, redisClientPromise, attempts, turns,
                 awaiting, gets, sets>>

\* rag when ragChain.invoke resolves to res
RagReturns(p, res) ==
  /\ pc[p] = "rag"
  /\ trace' = [trace EXCEPT ![p] = Append(@, "rag")]
  /\ NodeReturns(p, "rag",
       [WithMessages(st[p], <<AIMessage(AnswerOf(res))>>)
          EXCEPT !.answer = Some(AnswerOf(res)),
                 !.context = Some(ContextOf(res))])
  /\ obs' = [obs EXCEPT ![p].ragRes = Some(res),
                        ![p].afterRag =
                           WithMessages(st[p],
                                        <<AIMessage(AnswerOf(res))>>).messages]
  /\ UNCHANGED outerVars
  /\ UNCHANGED <<config, store, storeUp, redisClientPromise, attempts, turns,
                 awaiting, gets, sets>>

\* a rag node that swallows the failure and goes on with an empty answer
RagThrowsSwallowed(p) ==
  /\ pc[p] = "rag"
  /\ trace' = [trace EXCEPT ![p] = Append(@, "rag")]
  /\ NodeReturns(p, "rag",
       [WithMessages(st[p], <<AIMessage(<<>>)>>)
          EXCEPT !.answer = Some(<<>>), !.context = Some(<<>>)])
  /\ obs' = [obs EXCEPT ![p].ragErr = TRUE]
  /\ UNCHANGED outerVars
  /\ UNCHANGED <<config, store, storeUp, redisClientPromise, attempts, turns,
                 awaiting, gets, sets>>

\* rag when ragChain.invoke rejects: the node throws, invoke rejects, and
\* ask's promise rejects with it
RagThrows(p) ==
  /\ pc[p] = "rag"
  /\ trace' = [trace EXCEPT ![p] = Append(@, "rag")]
  /\ pc' = [pc EXCEPT ![p] = "rejected"]
  /\ result' = [result EXCEPT ![p] = Rejected]
  /\ obs' = [obs EXCEPT ![p].ragErr = TRUE]
  /\ UNCHANGED outerVars
  /\ UNCHANGED <<config, store, storeUp, redisClientPromise, attempts, turns,
                 at, st, awaiting, completed, gets, sets>>

\* ------------------------------------------------------------ summarize node
Max(a, b) == IF a >= b THEN a ELSE b
Min(a, b) == IF a <= b THEN a ELSE b
LastN(s, n) == SubSeq(s, Len(s) - Min(n, Len(s)) + 1, Len(s))

\* a retention count that defaults to 0
KeepLastNDefaultZero(cfg) ==
  IF IsFinite(NumberOr(cfg.summaryKeepLastN, 0))
  THEN Num(Max(0, NumberOr(cfg.summaryKeepLastN, 0).v))
  ELSE NaN

\* Math.max(0, Number(config.redis?.summaryKeepLastN ?? 6))
DefaultKeepLastN == 6
KeepLastN(cfg) ==
  IF IsFinite(NumberOr(cfg.summaryKeepLastN, DefaultKeepLastN))
  THEN Num(Max(0, NumberOr(cfg.summaryKeepLastN, DefaultKeepLastN).v))
  ELSE NaN

\* a threshold test without the "finite and positive" return
MiddlewareCalledAnyThreshold(cfg, messages, now) ==
  /\ estimateRedisValueBytes(messages, now) > NumberOr(cfg.maxValueBytes, 0).v
  /\ SelectSeq(messages, NotSystemNotRemove) # <<>>

\* a threshold test that summarizes at the threshold too
MiddlewareCalledAtThreshold(cfg, messages, now) ==
  /\ IsFinite(NumberOr(cfg.maxValueBytes, 0))
  /\ NumberOr(cfg.maxValueBytes, 0).v > 0
  /\ estimateRedisValueBytes(messages, now) >= NumberOr(cfg.maxValueBytes, 0).v
  /\ SelectSeq(messages, NotSystemNotRemove) # <<>>

\* the summarize node reaches the call of middleware.beforeModel
MiddlewareCalled(cfg, messages, now) ==
  /\ IsFinite(NumberOr(cfg.maxValueBytes, 0))
  /\ NumberOr(cfg.maxValueBytes, 0).v > 0
  /\ estimateRedisValueBytes(messages, now) > NumberOr(cfg.maxValueBytes, 0).v
  /\ SelectSeq(messages, NotSystemNotRemove) # <<>>

\* res?.messages of beforeModel({ messages: nonSystem }) with trigger
\* { messages: 1 } and keep { messages: keepLastN }, for the outcome mw of
\* the summarization call; None when there is no messages field
MiddlewareMessages(mw, nonSystem, keepLastN) ==
  CASE mw = "removeOnly" -> Some(<<RemoveAll>>)
    [] mw = "summary" /\ keepLastN.kind = "num"
         /\ Len(nonSystem) > keepLastN.v ->
         Some(<<RemoveAll, HumanMessage(DefaultSummaryPrefix \o SummaryText)>>
                \o LastN(nonSystem, keepLastN.v))
    [] OTHER -> None

\* a summarize node without the catch and without the two "nothing usable"
\* returns: whatever came back replaces the history
SummarizeUpdateUnguarded(cfg, messages, now, mw) ==
  IF ~MiddlewareCalled(cfg, messages, now) THEN <<>>
  ELSE LET res == MiddlewareMessages(mw,
                    SelectSeq(messages, NotSystemNotRemove), KeepLastN(cfg))
       IN <<RemoveAll>> \o SelectSeq(messages, IsSystem)
            \o (IF res = None THEN <<>> ELSE SelectSeq(res[1], NotRemove))

\* a summarize node that rebuilds the history without the system messages
SummarizeUpdateDropsSystem(cfg, messages, now, mw) ==
  IF ~MiddlewareCalled(cfg, messages, now) \/ mw = "throw" THEN <<>>
  ELSE LET res == MiddlewareMessages(mw,
                    SelectSeq(messages, NotSystemNotRemove), KeepLastN(cfg))
       IN IF res = None THEN <<>>
          ELSE IF SelectSeq(res[1], NotRemove) = <<>> THEN <<>>
          ELSE <<RemoveAll>> \o SelectSeq(res[1], NotRemove)

\* a summarize node that puts the system messages after the summarized ones
SummarizeUpdateSystemLast(cfg, messages, now, mw) ==
  IF ~MiddlewareCalled(cfg, messages, now) \/ mw = "throw" THEN <<>>
  ELSE LET res == MiddlewareMessages(mw,
                    SelectSeq(messages, NotSystemNotRemove), KeepLastN(cfg))
       IN IF res = None THEN <<>>
          ELSE IF SelectSeq(res[1], NotRemove) = <<>> THEN <<>>
          ELSE <<RemoveAll>> \o SelectSeq(res[1], NotRemove)
                 \o SelectSeq(messages, IsSystem)

\* the update the summarize node returns
SummarizeUpdate(cfg, messages, now, mw) ==
  IF ~MiddlewareCalled(cfg, messages, now) \/ mw = "throw" THEN <<>>
  ELSE LET res == MiddlewareMessages(mw,
                    SelectSeq(messages, NotSystemNotRemove), KeepLastN(cfg))
       IN IF res = None THEN <<>>
          ELSE IF SelectSeq(res[1], NotRemove) = <<>> THEN <<>>
          ELSE <<RemoveAll>> \o SelectSeq(messages, IsSystem)
                 \o SelectSeq(res[1], NotRemove)

Summarize(p, mw) ==
  /\ pc[p] = "summarize"
  /\ trace' = [trace EXCEPT ![p] = Append(@, "summarize")]
  /\ NodeReturns(p, "summarize",
       WithMessages(st[p], SummarizeUpdate(config, st[p].messages, turns, mw)))
  /\ obs' = [obs EXCEPT ![p].mw =
                          IF MiddlewareCalled(config, st[p].messages, turns)
                          THEN mw ELSE "notcalled",
                        ![p].afterSummarize =
                          WithMessages(st[p],
                            SummarizeUpdate(config, st[p].messages, turns,
                                            mw)).messages]
  /\ UNCHANGED outerVars
  /\ UNCHANGED <<config, store, storeUp, redisClientPromise, attempts, turns,
                 awaiting, gets, sets>>

\* -------------------------------------------------------------- persist node
\* persist, up to the await of getRedisClient in saveMessagesToRedis
PersistStart(p) ==
  /\ pc[p] = "persist" /\ at[p] = "start"
  /\ getRedisClient(p)
  /\ at' = [at EXCEPT ![p] = "client"]
  /\ trace' = [trace EXCEPT ![p] = Append(@, "persist")]
  /\ obs' = [obs EXCEPT ![p].toPersist = st[p].messages]
  /\ UNCHANGED outerVars
  /\ UNCHANGED <<config, store, storeUp, turns, pc, st, completed, gets, sets,
                 result>>

\* the try block of persist throws: getRedisClient or client.set rejected
PersistFails(p) == attempts[awaiting[p]] = "rejected" \/ ~storeUp

\* a persist without the catch: the failure rejects the invocation
PersistRethrows(p) ==
  /\ pc' = [pc EXCEPT ![p] = "rejected"]
  /\ result' = [result EXCEPT ![p] = Rejected]
  /\ UNCHANGED <<st, completed, at>>

\* catch (e) { console.warn(...); } of persist, then return {}
PersistCatch(p) == NodeReturns(p, "persist", st[p])

\* a persist that writes only when the key still holds what hydrate read
PersistSaveIfUnchanged(p) ==
  /\ pc[p] = "persist" /\ at[p] = "client"
  /\ attempts[awaiting[p]] # "pending"
  /\ sets' = [sets EXCEPT ![p] =
                IF attempts[awaiting[p]] = "fulfilled"
                THEN Append(@, KeyOf(p)) ELSE @]
  /\ store' = IF PersistFails(p) \/ store[KeyOf(p)] # obs[p].raw THEN store
              ELSE [store EXCEPT ![KeyOf(p)] =
                      RedisSet(
                        JsonStringify(buildRedisPayload(st[p].messages, turns)),
                        SetOptions(config))]
  /\ IF PersistFails(p)
     THEN PersistCatch(p)
     ELSE NodeReturns(p, "persist", st[p])
  /\ obs' = [obs EXCEPT ![p].connPersist = attempts[awaiting[p]],
                        ![p].persistErr = PersistFails(p)]
  /\ UNCHANGED outerVars
  /\ UNCHANGED <<config, storeUp, redisClientPromise, attempts, turns,
                 awaiting, trace, gets>>

\* a SET that writes the payload under every key
PersistSaveEveryKey(p) ==
  /\ pc[p] = "persist" /\ at[p] = "client"
  /\ attempts[awaiting[p]] # "pending"
  /\ sets' = [sets EXCEPT ![p] =
                IF attempts[awaiting[p]] = "fulfilled"
                THEN Append(@, KeyOf(p)) ELSE @]
  /\ store' = IF PersistFails(p) THEN store
              ELSE [k \in Keys |->
                      RedisSet(
                        JsonStringify(buildRedisPayload(st[p].messages, turns)),
                        SetOptions(config))]
  /\ IF PersistFails(p)
     THEN PersistCatch(p)
     ELSE NodeReturns(p, "persist", st[p])
  /\ obs' = [obs EXCEPT ![p].connPersist = attempts[awaiting[p]],
                        ![p].persistErr = PersistFails(p)]
  /\ UNCHANGED outerVars
  /\ UNCHANGED <<config, storeUp, redisClientPromise, attempts, turns,
                 awaiting, trace, gets>>

\* persist from the settled client promise to its return: the SET of the
\* payload built from state.messages
PersistSave(p) ==
  /\ pc[p] = "persist" /\ at[p] = "client"
  /\ attempts[awaiting[p]] # "pending"
  /\ sets' = [sets EXCEPT ![p] =
                IF attempts[awaiting[p]] = "fulfilled"
                THEN Append(@, KeyOf(p)) ELSE @]
  /\ store' = IF PersistFails(p) THEN store
              ELSE [store EXCEPT ![KeyOf(p)] =
                      RedisSet(
                        JsonStringify(buildRedisPayload(st[p].messages, turns)),
                        SetOptions(config))]
  /\ IF PersistFails(p)
     THEN PersistCatch(p)
     ELSE NodeReturns(p, "persist", st[p])
  /\ obs' = [obs EXCEPT ![p].connPersist = attempts[awaiting[p]],
                        ![p].persistErr = PersistFails(p)]
  /\ UNCHANGED outerVars
  /\ UNCHANGED <<config, storeUp, redisClientPromise, attempts, turns,
                 awaiting, trace, gets>>

\* -------------------------------------------------------------- environment
StoreFails ==
  /\ storeUp
  /\ storeUp' = FALSE
  /\ UNCHANGED outerVars
  /\ UNCHANGED <<config, store, redisClientPromise, attempts, turns, pc, at,
                 st, awaiting, trace, completed, gets, sets, result, obs>>

StoreRecovers ==
  /\ ~storeUp
  /\ storeUp' = TRUE
  /\ UNCHANGED outerVars
  /\ UNCHANGED <<config, store, redisClientPromise, attempts, turns, pc, at,
                 st, awaiting, trace, completed, gets, sets, result, obs>>

\* the server drops a key whose time-to-live has run out
KeyExpires(k) ==
  /\ store[k].kind = "payload"
  /\ store[k].ex # None
  /\ store' = [store EXCEPT ![k] = NoValue]
  /\ UNCHANGED outerVars
  /\ UNCHANGED <<config, storeUp, redisClientPromise, attempts, turns, pc, at,
                 st, awaiting, trace, completed, gets, sets, result, obs>>

\* ------------------------------------------------------------ specification
Next ==
  \/ \E p \in Procs : \E q \in Questions : \E s \in PriorStates(p) : Ask(p, s, q)
  \/ \E p \in Procs : HydrateStart(p)
  \/ \E a \in 1..MaxAttempts : ConnectSettles(a)
  \/ \E p \in Procs : HydrateLoad(p)
  \/ \E p \in Procs : Ingest(p)
  \/ \E p \in Procs : \E res \in RagResults : RagReturns(p, res)
  \/ \E p \in Procs : RagThrows(p)
  \/ \E p \in Procs : \E mw \in MiddlewareOutcomes : Summarize(p, mw)
  \/ \E p \in Procs : PersistStart(p)
  \/ \E p \in Procs : PersistSave(p)
  \/ StoreFails
  \/ StoreRecovers

Spec == Init /\ [][Next]_vars

\* =================================================================== claims
StageOrder == <<"hydrate", "ingest", "rag", "summarize", "persist">>
IsPrefix(s, t) == Len(s) <= Len(t) /\ s = SubSeq(t, 1, Len(s))
InSeq(x, s) == \E i \in 1..Len(s) : s[i] = x
Nodes == {"hydrate", "ingest", "rag", "summarize", "persist"}

\* C1: in every invocation the stages start in the order hydrate, ingest,
\* rag, summarize, persist; a stage starts only when every stage started
\* before it has returned, none starts twice, and persist starts only after
\* rag returned a result in the same invocation.
C1_StagesInOrder ==
  \A p \in Procs :
    /\ IsPrefix(trace[p], StageOrder)
    /\ IsPrefix(completed[p], trace[p])
    /\ Len(trace[p]) <= Len(completed[p]) + 1
    /\ pc[p] \in Nodes => pc[p] = StageOrder[Len(completed[p]) + 1]
    /\ InSeq("persist", trace[p]) =>
         InSeq("rag", completed[p]) /\ obs[p].ragRes # None

C1_Witness ==
  \E p \in Procs : pc[p] = END /\ trace[p] = StageOrder

\* C2: when the rag stage fails, ask is rejected, the message list is the
\* one ingest left (no assistant message), summarize and persist have not
\* started, no SET was issued and the thread's key holds what it held when
\* ask was called.
C2_RagFailureAborts ==
  \A p \in Procs :
    obs[p].ragErr =>
      /\ pc[p] = "rejected"
      /\ ~InSeq("rag", completed[p])
      /\ result[p] = Rejected
      /\ st[p].messages = obs[p].afterIngest
      /\ \A i \in 1..Len(st[p].messages) :
           i > Len(obs[p].afterHydrate) => st[p].messages[i].type = "human"
      /\ ~InSeq("summarize", trace[p])
      /\ ~InSeq("persist", trace[p])
      /\ sets[p] = <<>>
      /\ store[KeyOf(p)] = obs[p].storeAtAsk

C2_Witness ==
  \E p \in Procs :
    /\ pc[p] = "rejected"
    /\ obs[p].ragErr
    /\ IsPayload(store[KeyOf(p)])

\* C3: a failure inside hydrate (no connection, GET fails, stored value not
\* parseable) does not reject the invocation: hydrate returns, the graph is
\* at ingest, only rag can reject the call, and when rag returned and the
\* graph ended the caller holds the answer of that rag call.
C3_HydrateFailureNonFatal ==
  \A p \in Procs :
    obs[p].hydrateErr =>
      /\ InSeq("hydrate", completed[p])
      /\ completed[p] = <<"hydrate">> => pc[p] = "ingest"
      /\ pc[p] = "rejected" => InSeq("rag", trace[p])
      /\ (pc[p] = END /\ obs[p].ragRes # None) =>
           /\ result[p].kind = "resolved"
           /\ result[p].answer = AnswerOf(obs[p].ragRes[1])

C3_Witness ==
  \E p \in Procs :
    /\ obs[p].hydrateErr
    /\ obs[p].connHydrate = "fulfilled"
    /\ obs[p].storeAtAsk = Garbage
    /\ pc[p] = END
    /\ result[p].kind = "resolved"

C3_WitnessNoConnection ==
  \E p \in Procs :
    /\ obs[p].hydrateErr
    /\ obs[p].connHydrate = "rejected"
    /\ pc[p] = END
    /\ result[p].kind = "resolved"

\* C4: a failure inside persist (no connection, SET fails) does not reject
\* the invocation: the graph ends and ask resolves with the answer and the
\* context the rag stage of the same invocation produced.
C4_PersistFailureNonFatal ==
  \A p \in Procs :
    obs[p].persistErr =>
      /\ pc[p] = END
      /\ result[p].kind = "resolved"
      /\ obs[p].ragRes # None
      /\ result[p].answer = AnswerOf(obs[p].ragRes[1])
      /\ result[p].context = ContextOf(obs[p].ragRes[1])

C4_Witness ==
  \E p \in Procs :
    /\ obs[p].persistErr
    /\ pc[p] = END
    /\ result[p].kind = "resolved"
    /\ result[p].answer = A1
    /\ result[p].context = <<Chunk1>>

\* C5: when the summarization call throws, yields no messages or yields only
\* removal markers, the message list after summarize is the list after rag,
\* the invocation is not rejected, persist is handed that same list, and at
\* the end ask resolves with the answer of the rag stage.
C5_SummarizeFailureKeepsHistory ==
  \A p \in Procs :
    (obs[p].mw \in {"throw", "none", "removeOnly"}
       /\ InSeq("summarize", completed[p])) =>
      /\ obs[p].afterSummarize = obs[p].afterRag
      /\ st[p].messages = obs[p].afterRag
      /\ pc[p] # "rejected"
      /\ InSeq("persist", trace[p]) => obs[p].toPersist = obs[p].afterRag
      /\ pc[p] = END =>
           /\ result[p].kind = "resolved"
           /\ result[p].answer = AnswerOf(obs[p].ragRes[1])

C5_Witness ==
  \E p \in Procs :
    /\ obs[p].mw = "removeOnly"
    /\ pc[p] = END
    /\ result[p].kind = "resolved"
    /\ obs[p].toPersist = obs[p].afterRag

C5_WitnessThrow ==
  \E p \in Procs : obs[p].mw = "throw" /\ pc[p] = END

\* the value GET returned is a payload with at least one message
FoundHistory(p) ==
  /\ InSeq("hydrate", completed[p])
  /\ obs[p].raw.kind = "payload"
  /\ Len(obs[p].raw.json.messages) > 0

\* C6: when hydrate finds a non-empty stored history, the message list after
\* hydrate is that stored sequence, message by message in stored order, and
\* holds nothing of what the caller passed.
C6_HydrateReplaces ==
  \A p \in Procs :
    FoundHistory(p) =>
      /\ Len(obs[p].afterHydrate) = Len(obs[p].raw.json.messages)
      /\ \A i \in 1..Len(obs[p].afterHydrate) :
           /\ obs[p].afterHydrate[i].type = obs[p].raw.json.messages[i].type
           /\ obs[p].afterHydrate[i].content =
                obs[p].raw.json.messages[i].data.content

C6_Witness ==
  \E p \in Procs :
    /\ FoundHistory(p)
    /\ obs[p].prior = KeptState("t1").messages
    /\ obs[p].afterHydrate # obs[p].prior
    /\ Len(obs[p].afterHydrate) = 2

\* the store was unreachable in hydrate, or the thread's key was absent
NothingStored(p) ==
  /\ InSeq("hydrate", completed[p])
  /\ obs[p].raw.kind \in {"noclient", "error", "null"}

\* C7 as claimed: when the store is unreachable or the key is absent the
\* history entering ingest is empty whatever the caller passed, and after
\* ingest it holds exactly the new human message.
C7_Original ==
  \A p \in Procs :
    (NothingStored(p) /\ InSeq("ingest", completed[p])) =>
      /\ obs[p].afterHydrate = <<>>
      /\ obs[p].afterIngest = <<HumanMessage(st[p].input)>>

\* C7 amended: when the store is unreachable or the key is absent, hydrate
\* changes nothing: the history entering ingest is the message list of the
\* state the caller passed, and after ingest it is that list followed by the
\* one new human message (exactly that one message when the caller passed
\* no messages).
C7_HydrateKeepsCallerHistory ==
  \A p \in Procs :
    NothingStored(p) =>
      /\ obs[p].afterHydrate = obs[p].prior
      /\ InSeq("ingest", completed[p]) =>
           /\ obs[p].afterIngest =
                obs[p].prior \o <<HumanMessage(st[p].input)>>
           /\ obs[p].prior = <<>> =>
                obs[p].afterIngest = <<HumanMessage(st[p].input)>>

C7_Witness ==
  \E p \in Procs :
    /\ NothingStored(p)
    /\ obs[p].raw.kind = "null"
    /\ InSeq("ingest", completed[p])
    /\ obs[p].prior # <<>>
    /\ Len(obs[p].afterIngest) = Len(obs[p].prior) + 1

\* a turn that ran to its end with a store that answered in hydrate and in
\* persist, and in which summarize did not call the summarization
HealthyTurn(p) ==
  /\ pc[p] = END
  /\ ~obs[p].hydrateErr
  /\ ~obs[p].persistErr
  /\ obs[p].mw = "notcalled"

\* the messages of the record the thread's key holds, read back
StoredMessages(p) == LoadResult(store[KeyOf(p)])

\* C8 as claimed: after such a turn the stored record is the history read by
\* hydrate followed by a human message with the question and an assistant
\* message with the answer, so 2 messages for a thread that had no record.
C8_Original ==
  \A p \in Procs :
    HealthyTurn(p) =>
      /\ StoredMessages(p) =
           obs[p].restored
             \o <<HumanMessage(st[p].input), AIMessage(result[p].answer)>>
      /\ obs[p].raw.kind = "null" => Len(StoredMessages(p)) = 2

\* the history entering ingest: what hydrate restored when it restored
\* something, otherwise the messages of the state the caller passed
EnteringIngest(p) ==
  IF obs[p].restored # <<>> THEN obs[p].restored ELSE obs[p].prior

\* C8 amended: after such a turn the stored record is the storage form (same
\* types, contents with the think segments stripped) of the history entering
\* ingest followed by a human message with the question and an assistant
\* message with the answer, in that order; the history entering ingest is
\* the restored one when hydrate restored something and otherwise the
\* caller's, so the record holds exactly 2 messages when the thread had no
\* record and the caller passed no messages.
C8_StoredRecordAfterTurn ==
  \A p \in Procs :
    HealthyTurn(p) =>
      LET expected == EnteringIngest(p)
                        \o <<HumanMessage(st[p].input),
                             AIMessage(result[p].answer)>>
          stored == store[KeyOf(p)].json.messages
      IN /\ store[KeyOf(p)].kind = "payload"
         /\ Len(stored) = Len(expected)
         /\ \A i \in 1..Len(stored) :
              /\ stored[i].type = expected[i].type
              /\ stored[i].data.content =
                   stripThinkFromContent(expected[i].content)
         /\ (obs[p].raw.kind = "null" /\ obs[p].prior = <<>>) =>
              Len(stored) = 2

C8_Witness ==
  \E p \in Procs :
    /\ HealthyTurn(p)
    /\ obs[p].restored # <<>>
    /\ Len(StoredMessages(p)) = Len(obs[p].restored) + 2
    /\ result[p].answer = AThink

C8_WitnessFresh ==
  \E p \in Procs :
    /\ HealthyTurn(p)
    /\ obs[p].raw.kind = "null"
    /\ obs[p].prior = <<>>
    /\ Len(StoredMessages(p)) = 2

\* the key of the thread of p: the configured prefix, "rag:mem:" when none
\* is configured, then the thread identifier, "default" when it is unset
ThreadKey(p) ==
  << IF config.keyPrefix = Undefined THEN "rag:mem:" ELSE config.keyPrefix,
     IF st[p].threadId \in {Undefined, ""} THEN "default"
     ELSE st[p].threadId >>

\* C9 as claimed: every call that has settled issued exactly one GET and
\* exactly one SET, both for the thread's key.
C9_Original ==
  \A p \in Procs :
    pc[p] \in {END, "rejected"} =>
      gets[p] = <<ThreadKey(p)>> /\ sets[p] = <<ThreadKey(p)>>

\* C9 amended: a call issues at most one GET, in hydrate, and at most one
\* SET, in persist, both for the thread's key; the GET is issued exactly when
\* hydrate obtained a client and the SET exactly when the call reached the
\* end of persist with a client, so a call whose connection attempt fails
\* issues no command and a call whose answer stage fails issues no SET.
C9_AtMostOneGetOneSet ==
  \A p \in Procs :
    /\ Len(gets[p]) <= 1 /\ Len(sets[p]) <= 1
    /\ \A i \in 1..Len(gets[p]) : gets[p][i] = ThreadKey(p)
    /\ \A i \in 1..Len(sets[p]) : sets[p][i] = ThreadKey(p)
    /\ InSeq("hydrate", completed[p]) =>
         (Len(gets[p]) = 1 <=> obs[p].connHydrate = "fulfilled")
    /\ ~InSeq("hydrate", completed[p]) => gets[p] = <<>>
    /\ InSeq("persist", completed[p]) =>
         (Len(sets[p]) = 1 <=> obs[p].connPersist = "fulfilled")
    /\ ~InSeq("persist", completed[p]) => sets[p] = <<>>
    /\ pc[p] = "rejected" => sets[p] = <<>>

C9_Witness ==
  \E p \in Procs :
    /\ pc[p] = END
    /\ st[p].threadId = "t1"
    /\ gets[p] = <<ThreadKey(p)>>
    /\ sets[p] = <<ThreadKey(p)>>

C9_WitnessNoCommand ==
  \E p \in Procs :
    /\ pc[p] = END
    /\ gets[p] = <<>>
    /\ sets[p] = <<>>

\* C10: a connection attempt that fails clears the cached promise, so the
\* cache never holds a failed attempt and the callers awaiting that attempt
\* see the failure; a call of getRedisClient that finds the cache empty
\* starts a new attempt and caches it; and an attempt that settles while the
\* store is reachable (and a url is configured) settles to a working client,
\* also after earlier attempts have failed.
C10_FailedConnectIsRetried ==
  /\ [](\A a \in 1..Len(attempts) :
          attempts[a] = "rejected" => redisClientPromise # a)
  /\ [](\A p \in Procs :
          /\ obs[p].connHydrate = "rejected" => obs[p].hydrateErr
          /\ obs[p].connPersist = "rejected" => obs[p].persistErr)
  /\ [][\A a \in 1..Len(attempts) :
          (attempts[a] = "pending" /\ attempts'[a] = "rejected") =>
            redisClientPromise' = 0]_vars
  /\ [][\A p \in Procs :
          (at[p] = "start" /\ at'[p] = "client" /\ redisClientPromise = 0) =>
            /\ Len(attempts') = Len(attempts) + 1
            /\ attempts'[Len(attempts')] = "pending"
            /\ redisClientPromise' = Len(attempts')
            /\ awaiting'[p] = Len(attempts')]_vars
  /\ [][\A a \in 1..Len(attempts) :
          (attempts[a] = "pending" /\ attempts'[a] # "pending"
             /\ storeUp /\ config.url # Undefined) =>
            attempts'[a] = "fulfilled"]_vars

C10_Witness ==
  \E p \in Procs :
    /\ obs[p].connHydrate = "rejected"
    /\ obs[p].connPersist = "fulfilled"
    /\ pc[p] = END
    /\ Len(attempts) >= 2
    /\ attempts[awaiting[p]] = "fulfilled"
    /\ redisClientPromise = awaiting[p]
    /\ sets[p] # <<>>

\* ======================================================= concurrent callers
\* Two callers of ask whose turns interleave at the awaits of the graph.
ProcsConc == {1, 2}
Q2 == <<"y", "o">>
QuestionOf(p) == IF p = 1 THEN Q1 ELSE Q2
ThreadIdsConc == {"t1", "default", "", Undefined}
\* caller 1 names "t1" or no thread, caller 2 any of the identifiers
ThreadIdsOf(p) == IF p = 1 THEN ThreadIds ELSE ThreadIdsConc

\* a history an earlier run of the program left under every key
EarlierHistory == <<HumanMessage(Old1), AIMessage(A1)>>
InitialStoresConc ==
  { [k \in Keys |-> NoValue],
    [k \in Keys |->
       RedisSet(JsonStringify(buildRedisPayload(EarlierHistory, 0)), None)] }

\* the store is configured and no threshold is, under either key prefix
ConfigsConc ==
  { [c EXCEPT !.maxValueBytes = Unset] : c \in { d \in Configs : d.url # Undefined } }

InitConc ==
  /\ config \in ConfigsConc
  /\ store \in InitialStoresConc
  /\ storeUp = TRUE
  /\ OuterIdle
  /\ redisClientPromise = 0
  /\ attempts = <<>>
  /\ turns = 0
  /\ pc = [p \in ProcsConc |-> "idle"]
  /\ at = [p \in ProcsConc |-> "start"]
  /\ st = [p \in ProcsConc |-> FreshState(Undefined)]
  /\ awaiting = [p \in ProcsConc |-> 0]
  /\ trace = [p \in ProcsConc |-> <<>>]
  /\ completed = [p \in ProcsConc |-> <<>>]
  /\ gets = [p \in ProcsConc |-> <<>>]
  /\ sets = [p \in ProcsConc |-> <<>>]
  /\ result = [p \in ProcsConc |-> NoResult]
  /\ obs = [p \in ProcsConc |-> NoObs]

NextConc ==
  \/ \E p \in ProcsConc : \E t \in ThreadIdsOf(p) :
       Ask(p, FreshState(t), QuestionOf(p))
  \/ \E p \in ProcsConc : HydrateStart(p)
  \/ \E a \in 1..MaxAttempts : ConnectSettles(a)
  \/ \E p \in ProcsConc : HydrateLoad(p)
  \/ \E p \in ProcsConc : Ingest(p)
  \/ \E p \in ProcsConc : RagReturns(p,
       [answer |-> Some(A1), output |-> None, context |-> Some(<<Chunk1>>)])
  \/ \E p \in ProcsConc : RagThrows(p)
  \/ \E p \in ProcsConc : Summarize(p, "none")
  \/ \E p \in ProcsConc : PersistStart(p)
  \/ \E p \in ProcsConc : PersistSave(p)
  \/ StoreFails
  \/ StoreRecovers

SpecConc == InitConc /\ [][NextConc]_vars

\* caller p has just had its SET accepted by the store
SetAccepted(p) ==
  /\ Len(sets'[p]) = Len(sets[p]) + 1
  /\ ~obs'[p].persistErr

\* the value under key k is the storage form of the list msgs
HoldsList(value, msgs) ==
  /\ value.kind = "payload"
  /\ Len(value.json.messages) = Len(msgs)
  /\ \A i \in 1..Len(msgs) :
       /\ value.json.messages[i].type = msgs[i].type
       /\ value.json.messages[i].data.content =
            stripThinkFromContent(msgs[i].content)

\* some stored message under key k has the content c
StoredHas(k, c) ==
  /\ store[k].kind = "payload"
  /\ \E i \in 1..Len(store[k].json.messages) :
       store[k].json.messages[i].data.content = c

\* C11: turns for the same thread are not serialised: a key changes only by
\* the SET of a persisting turn, and an accepted SET leaves under the key the
\* message list of that turn alone, whatever another turn wrote there since
\* this turn hydrated; so after two concurrent turns that hydrated the same
\* history the record is the list of the turn whose SET came last.
C11_LastWriterWins ==
  /\ [][\A p \in ProcsConc :
          SetAccepted(p) => HoldsList(store'[ThreadKey(p)], st[p].messages)]_vars
  /\ [][\A k \in Keys :
          store'[k] # store[k] =>
            \E p \in ProcsConc : SetAccepted(p) /\ k = ThreadKey(p)]_vars

\* both turns read the same non-empty record, both SETs were accepted, and
\* the record holds the question of caller 2 but not that of caller 1
C11_Witness ==
  /\ pc[1] = END /\ pc[2] = END
  /\ ThreadKey(1) = ThreadKey(2)
  /\ obs[1].raw = obs[2].raw
  /\ obs[1].raw.kind = "payload"
  /\ ~obs[1].persistErr /\ ~obs[2].persistErr
  /\ sets[1] # <<>> /\ sets[2] # <<>>
  /\ StoredHas(ThreadKey(1), Q2)
  /\ ~StoredHas(ThreadKey(1), Q1)

\* caller p is inside a turn or has finished one: st[p] is the state of a
\* call of ask
InTurn(p) == pc[p] # "idle"

\* caller p has just issued its GET / its SET
GetIssued(p) == Len(gets'[p]) = Len(gets[p]) + 1
SetIssued(p) == Len(sets'[p]) = Len(sets[p]) + 1

\* C12 as claimed: an accepted SET of a turn leaves unchanged the record of
\* every turn whose thread identifier is a different one.
C12_Original ==
  [][\A p \in ProcsConc : \A q \in ProcsConc :
       (/\ InTurn(p) /\ InTurn(q)
        /\ st[p].threadId # st[q].threadId
        /\ SetAccepted(p))
       => store'[ThreadKey(q)] = store[ThreadKey(q)]]_vars

\* C12: turns whose thread identifiers derive different keys do not
\* interfere under any interleaving: the GET of a turn names the key of its
\* own thread and returns the value under that key, its SET names that key,
\* and no step changes a key other than that of the turn whose SET it is (an
\* unset identifier, the empty one and "default" derive one key and share one
\* record).
C12_DistinctKeysDoNotInterfere ==
  [][\A p \in ProcsConc :
       /\ GetIssued(p) =>
            /\ gets'[p] = Append(gets[p], ThreadKey(p))
            /\ obs'[p].raw \in {store[ThreadKey(p)], [kind |-> "error"]}
       /\ SetIssued(p) =>
            /\ sets'[p] = Append(sets[p], ThreadKey(p))
            /\ \A k \in Keys : k # ThreadKey(p) => store'[k] = store[k]]_vars

\* two turns on different keys that both found the earlier history have both
\* had their SET accepted: each record is the earlier history and then the
\* exchange of its own turn, without the question of the other
C12_Witness ==
  /\ pc[1] = END /\ pc[2] = END
  /\ ThreadKey(1) # ThreadKey(2)
  /\ obs[1].raw.kind = "payload" /\ obs[2].raw.kind = "payload"
  /\ sets[1] # <<>> /\ sets[2] # <<>>
  /\ ~obs[1].persistErr /\ ~obs[2].persistErr
  /\ StoredHas(ThreadKey(1), Q1) /\ ~StoredHas(ThreadKey(1), Q2)
  /\ StoredHas(ThreadKey(2), Q2) /\ ~StoredHas(ThreadKey(2), Q1)
  /\ StoredHas(ThreadKey(1), Old1) /\ StoredHas(ThreadKey(2), Old1)

\* C13 as claimed: two turns with different thread identifiers never use the
\* same key.
C13_Original ==
  \A p \in ProcsConc : \A q \in ProcsConc :
    (/\ gets[p] # <<>> /\ gets[q] # <<>>
     /\ st[p].threadId # st[q].threadId)
    => gets[p][1] # gets[q][1]

\* the identifier a thread identifier stands for: "default" for the unset
\* and the empty one
NamedThread(t) == IF t \in {Undefined, ""} THEN "default" ELSE t

\* C13: the key of a turn is the configured prefix ("rag:mem:" when none is
\* configured) followed by the thread identifier, "default" when it is unset
\* or empty; two turns use the same key exactly when their identifiers stand
\* for the same thread, so the unset identifier, the empty one and "default"
\* share a key and every other pair of different identifiers has different
\* keys.
C13_KeyOfThread ==
  \A p \in ProcsConc : \A q \in ProcsConc :
    (gets[p] # <<>> /\ gets[q] # <<>>)
    => /\ gets[p][1] =
            << IF config.keyPrefix = Undefined THEN "rag:mem:"
               ELSE config.keyPrefix, NamedThread(st[p].threadId) >>
       /\ (gets[p][1] = gets[q][1]) <=>
            (NamedThread(st[p].threadId) = NamedThread(st[q].threadId))

\* one turn with an unset identifier and one for "default" read the same
\* key, under a configured prefix
C13_Witness ==
  /\ gets[1] # <<>> /\ gets[2] # <<>>
  /\ st[1].threadId = Undefined /\ st[2].threadId = "default"
  /\ gets[1][1] = gets[2][1]
  /\ config.keyPrefix # Undefined

\* one turn for "t1" and one with an empty identifier read different keys
C13_WitnessDistinct ==
  /\ gets[1] # <<>> /\ gets[2] # <<>>
  /\ st[1].threadId = "t1" /\ st[2].threadId = ""
  /\ gets[1][1] # gets[2][1]

\* ======================================================== summarize stage
\* One caller, a store that stays up, and the configurations of the
\* threshold and of the number of recent messages kept.
RedisConfig(maxValueBytes, summaryKeepLastN) ==
  [url |-> RedisUrl, keyPrefix |-> Undefined,
   maxValueBytes |-> maxValueBytes, summaryKeepLastN |-> summaryKeepLastN,
   ttlSeconds |-> Unset]

\* 223 is the estimate of a first exchange Q1 / A1 on an empty history
ConfigsSum ==
  { RedisConfig(Unset, Unset), RedisConfig(NaN, Unset),
    RedisConfig(Num(0), Num(1)), RedisConfig(Num(-1), Num(1)),
    RedisConfig(Num(223), Num(1)), RedisConfig(Num(1), Num(2)),
    RedisConfig(Num(1), Unset) }

\* a state the caller kept from a long conversation: eight messages, none
\* of them a system message
LongState(t) ==
  [messages |-> [i \in 1..8 |-> IF i % 2 = 1 THEN HumanMessage(<<"q">>)
                                ELSE AIMessage(<<"a">>)],
   threadId |-> t, input |-> <<>>, answer |-> Some(<<"a">>),
   context |-> Some(<<>>)]

PriorStatesSum(p) ==
  {FreshState("t1"), KeptState("t1"), LongState("t1")}
    \cup (IF result[p].kind = "resolved" THEN {result[p].state} ELSE {})

InitSum ==
  /\ config \in ConfigsSum
  /\ store \in InitialStoresConc
  /\ storeUp = TRUE
  /\ OuterIdle
  /\ redisClientPromise = 0
  /\ attempts = <<>>
  /\ turns = 0
  /\ pc = [p \in Procs |-> "idle"]
  /\ at = [p \in Procs |-> "start"]
  /\ st = [p \in Procs |-> FreshState(Undefined)]
  /\ awaiting = [p \in Procs |-> 0]
  /\ trace = [p \in Procs |-> <<>>]
  /\ completed = [p \in Procs |-> <<>>]
  /\ gets = [p \in Procs |-> <<>>]
  /\ sets = [p \in Procs |-> <<>>]
  /\ result = [p \in Procs |-> NoResult]
  /\ obs = [p \in Procs |-> NoObs]

NextSum ==
  \/ \E p \in Procs : \E q \in Questions : \E s \in PriorStatesSum(p) :
       Ask(p, s, q)
  \/ \E p \in Procs : HydrateStart(p)
  \/ \E a \in 1..MaxAttempts : ConnectSettles(a)
  \/ \E p \in Procs : HydrateLoad(p)
  \/ \E p \in Procs : Ingest(p)
  \/ \E p \in Procs : \E res \in RagResults : RagReturns(p, res)
  \/ \E p \in Procs : \E mw \in MiddlewareOutcomes : Summarize(p, mw)
  \/ \E p \in Procs : PersistStart(p)
  \/ \E p \in Procs : PersistSave(p)

SpecSum == InitSum /\ [][NextSum]_vars

\* the summarize stage of the turn of p has returned
Summarized(p) == InSeq("summarize", completed[p])

\* the threshold as configured is unset, not a finite number, zero or
\* negative
ThresholdOff ==
  \/ config.maxValueBytes.kind \in {"unset", "nan"}
  \/ config.maxValueBytes.kind = "num" /\ config.maxValueBytes.v <= 0

\* the estimate of the history the summarize stage of p received
EstimateIn(p) == estimateRedisValueBytes(obs[p].afterRag, 0)

\* C14: when the configured byte threshold is unset, not a finite number,
\* zero or negative, the summarize stage returns the message list it received
\* unchanged and does not call the summarization model.
C14_NoThresholdNoSummarize ==
  \A p \in Procs :
    (Summarized(p) /\ ThresholdOff)
    => /\ obs[p].afterSummarize = obs[p].afterRag
       /\ obs[p].mw = "notcalled"

\* a history of ten messages passed the stage under a threshold of -1
C14_Witness ==
  /\ Summarized(1)
  /\ config.maxValueBytes = Num(-1)
  /\ Len(obs[1].afterRag) = 10
  /\ obs[1].afterSummarize = obs[1].afterRag

\* the same under a threshold that is not a number
C14_WitnessNaN ==
  /\ Summarized(1)
  /\ config.maxValueBytes = NaN
  /\ Len(obs[1].afterRag) = 10
  /\ obs[1].afterSummarize = obs[1].afterRag

\* the threshold as configured is a positive number
ThresholdOn ==
  config.maxValueBytes.kind = "num" /\ config.maxValueBytes.v > 0

\* C15: with a positive threshold, a history whose estimated serialized size
\* is at or below the threshold (equal included) leaves the summarize stage
\* unchanged and without a summarization call; the call is made only for an
\* estimate strictly above the threshold.
C15_AtOrBelowThresholdUnchanged ==
  \A p \in Procs :
    (Summarized(p) /\ ThresholdOn)
    => /\ EstimateIn(p) <= config.maxValueBytes.v
            => /\ obs[p].afterSummarize = obs[p].afterRag
               /\ obs[p].mw = "notcalled"
       /\ obs[p].mw # "notcalled"
            => EstimateIn(p) > config.maxValueBytes.v

\* a history whose estimate equals the threshold passed unchanged
C15_Witness ==
  /\ Summarized(1) /\ ThresholdOn
  /\ EstimateIn(1) = config.maxValueBytes.v
  /\ obs[1].afterRag # <<>>
  /\ obs[1].afterSummarize = obs[1].afterRag

\* a history one byte or more above the same threshold was summarized
C15_WitnessAbove ==
  /\ Summarized(1) /\ ThresholdOn
  /\ config.maxValueBytes = Num(223)
  /\ EstimateIn(1) > config.maxValueBytes.v
  /\ obs[1].mw = "summary"
  /\ obs[1].afterSummarize # obs[1].afterRag

\* a history below the threshold passed unchanged
C15_WitnessBelow ==
  /\ Summarized(1) /\ ThresholdOn
  /\ EstimateIn(1) < config.maxValueBytes.v
  /\ obs[1].afterSummarize = obs[1].afterRag

\* the system messages and the other messages of a history, in order
SystemOf(msgs) == SelectSeq(msgs, IsSystem)
NonSystemOf(msgs) == SelectSeq(msgs, NotSystemNotRemove)

\* the length of the longest common suffix of two sequences
RECURSIVE CommonSuffixLen(_, _)
CommonSuffixLen(a, b) ==
  IF a = <<>> \/ b = <<>> THEN 0
  ELSE IF a[Len(a)] # b[Len(b)] THEN 0
  ELSE 1 + CommonSuffixLen(SubSeq(a, 1, Len(a) - 1), SubSeq(b, 1, Len(b) - 1))

\* the number of recent non-system messages of the input of the summarize
\* stage of p that its output keeps verbatim
KeptVerbatim(p) ==
  CommonSuffixLen(NonSystemOf(obs[p].afterSummarize),
                  NonSystemOf(obs[p].afterRag))

\* the configured number of recent messages to keep, 6 when none is
ConfiguredKeep ==
  IF config.summaryKeepLastN.kind = "num"
  THEN (IF config.summaryKeepLastN.v > 0 THEN config.summaryKeepLastN.v ELSE 0)
  ELSE 6

\* the history the summarize stage of p received is above the threshold
AboveThreshold(p) ==
  ThresholdOn /\ EstimateIn(p) > config.maxValueBytes.v

\* C16 as claimed: for every history above the threshold the output keeps
\* the system messages and exactly min(keepLastN, count) non-system messages.
C16_Original ==
  \A p \in Procs :
    (Summarized(p) /\ AboveThreshold(p))
    => /\ SystemOf(obs[p].afterSummarize) = SystemOf(obs[p].afterRag)
       /\ KeptVerbatim(p) =
            Min(ConfiguredKeep, Len(NonSystemOf(obs[p].afterRag)))

\* C16: for every history above the threshold the system messages of the
\* input are in the output, in their order and with their contents; when the
\* summarization call returns its result, the non-system messages kept
\* verbatim are min(keepLastN, count of non-system messages) in number, and
\* when the call throws or returns no message the whole history is kept.
C16_SystemKeptRecentKept ==
  \A p \in Procs :
    (Summarized(p) /\ AboveThreshold(p))
    => /\ SystemOf(obs[p].afterSummarize) = SystemOf(obs[p].afterRag)
       /\ obs[p].mw = "summary"
            => KeptVerbatim(p) =
                 Min(ConfiguredKeep, Len(NonSystemOf(obs[p].afterRag)))
       /\ obs[p].mw \in {"throw", "none", "removeOnly"}
            => obs[p].afterSummarize = obs[p].afterRag

\* a history with a system message and more non-system messages than are
\* kept was summarized: the system message and one recent message remain
C16_Witness ==
  /\ Summarized(1) /\ AboveThreshold(1)
  /\ obs[1].mw = "summary"
  /\ SystemOf(obs[1].afterRag) # <<>>
  /\ Len(NonSystemOf(obs[1].afterRag)) > ConfiguredKeep
  /\ KeptVerbatim(1) = ConfiguredKeep
  /\ ConfiguredKeep = 1

\* fewer non-system messages than the number to keep: all are kept
C16_WitnessFew ==
  /\ Summarized(1) /\ AboveThreshold(1)
  /\ obs[1].mw = "summary"
  /\ Len(NonSystemOf(obs[1].afterRag)) < ConfiguredKeep
  /\ KeptVerbatim(1) = Len(NonSystemOf(obs[1].afterRag))

\* the summarization call threw on such a history: nothing was dropped
C16_WitnessThrow ==
  /\ Summarized(1) /\ AboveThreshold(1)
  /\ obs[1].mw = "throw"
  /\ Len(NonSystemOf(obs[1].afterRag)) > ConfiguredKeep
  /\ obs[1].afterSummarize = obs[1].afterRag

\* the summarize stage of p replaced the history by a summarized one
ProducedOutput(p) ==
  /\ Summarized(p)
  /\ obs[p].mw = "summary"
  /\ obs[p].afterSummarize # obs[p].afterRag

\* C17: when summarization produces output the new history is all the system
\* messages of the input in their order, then one summary message, then the
\* keepLastN most recent non-system messages in their order, and nothing
\* else; under a threshold of 1 byte with keepLastN = 2 a history of 10
\* non-system messages becomes the summary and its last 2 messages.
C17_SummarizedHistoryShape ==
  \A p \in Procs :
    ProducedOutput(p)
    => LET in == obs[p].afterRag
           out == obs[p].afterSummarize
           nSys == Len(SystemOf(in))
           recent == LastN(NonSystemOf(in), ConfiguredKeep)
       IN /\ Len(out) = nSys + 1 + Len(recent)
          /\ SubSeq(out, 1, nSys) = SystemOf(in)
          /\ ~IsSystem(out[nSys + 1])
          /\ out[nSys + 1].content = DefaultSummaryPrefix \o SummaryText
          /\ SubSeq(out, nSys + 2, Len(out)) = recent
          /\ Len(recent) = ConfiguredKeep
          /\ (/\ config.maxValueBytes = Num(1)
              /\ config.summaryKeepLastN = Num(2)
              /\ Len(in) = 10 /\ nSys = 0)
             => /\ Len(out) = 3
                /\ SubSeq(out, 2, 3) = SubSeq(in, 9, 10)

\* the scenario: threshold 1, ten non-system messages, keepLastN = 2, and
\* the result is three messages
C17_Witness ==
  /\ ProducedOutput(1)
  /\ config.maxValueBytes = Num(1)
  /\ config.summaryKeepLastN = Num(2)
  /\ Len(NonSystemOf(obs[1].afterRag)) = 10
  /\ SystemOf(obs[1].afterRag) = <<>>
  /\ Len(obs[1].afterSummarize) = 3

\* a summarized history that starts with a system message
C17_WitnessSystem ==
  /\ ProducedOutput(1)
  /\ SystemOf(obs[1].afterRag) # <<>>
  /\ IsSystem(obs[1].afterSummarize[1])
  /\ Len(obs[1].afterSummarize) = 2 + ConfiguredKeep

\* ================================================== sanitization on write
\* One caller, a store that stays up, no threshold, and texts that carry
\* <think> markup: a plain segment, one in upper case, and a segment inside
\* an open tag that it splits ("<thi<think>x</think>nk>y</think>").
UpperThink ==
  <<"<", "T", "H", "I", "N", "K", ">", "x", "<", "/", "T", "H", "I", "N", "K",
    ">", "o", "k">>
SplitThink ==
  <<"<", "t", "h", "i">> \o OpenTag \o <<"x">> \o CloseTag
    \o <<"n", "k", ">", "y">> \o CloseTag

QuestionsSan == {Q1, SplitThink}
AnswersSan == {A1, AThink, UpperThink, SplitThink}
RagResultsSan ==
  { [answer |-> Some(a), output |-> None, context |-> Some(<<>>)] :
      a \in AnswersSan }

PriorStatesSan(p) ==
  {FreshState("t1"), KeptState("t1")}
    \cup (IF result[p].kind = "resolved" THEN {result[p].state} ELSE {})

InitSan ==
  /\ config \in ConfigsConc
  /\ store = [k \in Keys |-> NoValue]
  /\ storeUp = TRUE
  /\ OuterIdle
  /\ redisClientPromise = 0
  /\ attempts = <<>>
  /\ turns = 0
  /\ pc = [p \in Procs |-> "idle"]
  /\ at = [p \in Procs |-> "start"]
  /\ st = [p \in Procs |-> FreshState(Undefined)]
  /\ awaiting = [p \in Procs |-> 0]
  /\ trace = [p \in Procs |-> <<>>]
  /\ completed = [p \in Procs |-> <<>>]
  /\ gets = [p \in Procs |-> <<>>]
  /\ sets = [p \in Procs |-> <<>>]
  /\ result = [p \in Procs |-> NoResult]
  /\ obs = [p \in Procs |-> NoObs]

NextSan ==
  \/ \E p \in Procs : \E q \in QuestionsSan : \E s \in PriorStatesSan(p) :
       Ask(p, s, q)
  \/ \E p \in Procs : HydrateStart(p)
  \/ \E a \in 1..MaxAttempts : ConnectSettles(a)
  \/ \E p \in Procs : HydrateLoad(p)
  \/ \E p \in Procs : Ingest(p)
  \/ \E p \in Procs : \E res \in RagResultsSan : RagReturns(p, res)
  \/ \E p \in Procs : Summarize(p, "none")
  \/ \E p \in Procs : PersistStart(p)
  \/ \E p \in Procs : PersistSave(p)

SpecSan == InitSan /\ [][NextSan]_vars

\* the text c has an open tag and, after it, a close tag (in any case)
HasPair(c) ==
  \E i \in 1..Len(c) : \E j \in 1..Len(c) :
    /\ HasAt(c, OpenTag, i)
    /\ j >= i + Len(OpenTag)
    /\ HasAt(c, CloseTag, j)

\* the contents of the messages stored under key k
StoredContents(k) ==
  IF store[k].kind = "payload"
  THEN { store[k].json.messages[i].data.content :
           i \in 1..Len(store[k].json.messages) }
  ELSE {}

\* C18: no content written to the store contains a paired
\* <think>...</think> segment, in any letter case.
C18_NoThinkSegmentStored ==
  \A k \in Keys : \A c \in StoredContents(k) : ~HasPair(c)

\* C19: for every content of a message of the history, stripping the
\* reasoning markup twice gives what stripping it once gives.
C19_StripIdempotent ==
  \A p \in Procs : \A i \in 1..Len(st[p].messages) :
    stripThinkFromContent(stripThinkFromContent(st[p].messages[i].content))
      = stripThinkFromContent(st[p].messages[i].content)

\* no message of msgs has an open or a close tag in its content
NoMarkup(msgs) ==
  \A i \in 1..Len(msgs) : \A j \in 1..Len(msgs[i].content) :
    ~HasAt(msgs[i].content, OpenTag, j) /\ ~HasAt(msgs[i].content, CloseTag, j)

\* the hydrate stage of the turn of p has returned
Hydrated(p) == InSeq("hydrate", completed[p])

C21_WitnessNoArray ==
  /\ Hydrated(1)
  /\ obs[1].raw = NoMessagesJson
  /\ ~obs[1].hydrateErr
  /\ obs[1].restored = <<>>

\* One caller, a store that can fail and recover, time-to-live settings, and
\* keys that expire.
TtlSettings == {Unset, NaN, Num(0), Num(-1), Num(60)}
ConfigsDur ==
  { [url |-> RedisUrl, keyPrefix |-> Undefined, maxValueBytes |-> Unset,
     summaryKeepLastN |-> Unset, ttlSeconds |-> t] : t \in TtlSettings }

QuestionsDur == {Q1, Q2}
PriorStatesDur(p) ==
  {FreshState("t1")}
    \cup (IF result[p].kind = "resolved" THEN {result[p].state} ELSE {})

InitDur ==
  /\ config \in ConfigsDur
  /\ store \in InitialStoresConc
  /\ storeUp \in BOOLEAN
  /\ OuterIdle
  /\ redisClientPromise = 0
  /\ attempts = <<>>
  /\ turns = 0
  /\ pc = [p \in Procs |-> "idle"]
  /\ at = [p \in Procs |-> "start"]
  /\ st = [p \in Procs |-> FreshState(Undefined)]
  /\ awaiting = [p \in Procs |-> 0]
  /\ trace = [p \in Procs |-> <<>>]
  /\ completed = [p \in Procs |-> <<>>]
  /\ gets = [p \in Procs |-> <<>>]
  /\ sets = [p \in Procs |-> <<>>]
  /\ result = [p \in Procs |-> NoResult]
  /\ obs = [p \in Procs |-> NoObs]

NextDur ==
  \/ \E p \in Procs : \E q \in QuestionsDur : \E s \in PriorStatesDur(p) :
       Ask(p, s, q)
  \/ \E p \in Procs : HydrateStart(p)
  \/ \E a \in 1..MaxAttempts : ConnectSettles(a)
  \/ \E p \in Procs : HydrateLoad(p)
  \/ \E p \in Procs : Ingest(p)
  \/ \E p \in Procs : RagReturns(p,
       [answer |-> Some(A1), output |-> None, context |-> Some(<<Chunk1>>)])
  \/ \E p \in Procs : Summarize(p, "none")
  \/ \E p \in Procs : PersistStart(p)
  \/ \E p \in Procs : PersistSave(p)
  \/ \E k \in Keys : KeyExpires(k)
  \/ StoreFails
  \/ StoreRecovers

SpecDur == InitDur /\ [][NextDur]_vars

\* the configured time-to-live is a finite number greater than zero
TtlPositive == config.ttlSeconds.kind = "num" /\ config.ttlSeconds.v > 0

\* C22: an accepted save leaves under the key the whole value of this save,
\* with an expiry of the configured seconds exactly when the time-to-live is
\* a finite number greater than zero and without expiry when it is unset,
\* zero, negative or not a number; what the key held before, its expiry
\* included, is replaced, and only a key written with an expiry is dropped
\* by the server.
C22_ExpiryOnlyForPositiveTtl ==
  /\ [][\A p \in Procs :
          SetAccepted(p) =>
            /\ HoldsList(store'[ThreadKey(p)], st[p].messages)
            /\ store'[ThreadKey(p)].json.updatedAt = turns
            /\ TtlPositive =>
                 store'[ThreadKey(p)].ex = <<config.ttlSeconds.v>>
            /\ ~TtlPositive => store'[ThreadKey(p)].ex = <<>>]_vars
  /\ [][\A k \in Keys :
          (store[k].kind = "payload" /\ store'[k].kind # "payload")
          => TtlPositive /\ store[k].ex = <<config.ttlSeconds.v>>]_vars

\* under a time-to-live of 60 a turn found a record without expiry and its
\* save left the record with an expiry of 60
C22_Witness ==
  /\ config.ttlSeconds = Num(60)
  /\ pc[1] = END /\ sets[1] # <<>> /\ ~obs[1].persistErr
  /\ obs[1].storeAtAsk.kind = "payload"
  /\ obs[1].storeAtAsk.ex = <<>>
  /\ store[ThreadKey(1)].kind = "payload"
  /\ store[ThreadKey(1)].ex = <<60>>

\* under a negative time-to-live the record was written without expiry
C22_WitnessNoExpiry ==
  /\ config.ttlSeconds = Num(-1)
  /\ pc[1] = END /\ sets[1] # <<>> /\ ~obs[1].persistErr
  /\ store[ThreadKey(1)].kind = "payload"
  /\ store[ThreadKey(1)].ex = <<>>

\* a record written with an expiry was dropped by the server before the
\* next turn read the key
C22_WitnessExpired ==
  /\ turns = 2
  /\ Hydrated(1)
  /\ obs[1].prior # <<>>
  /\ obs[1].raw = NoValue

\* caller p has just left the hydrate stage
HydrateReturned(p) == Len(completed'[p]) = 1 /\ Len(completed[p]) = 0

\* C23: the value an accepted save writes has the fields schemaVersion,
\* updatedAt and messages and no other, each stored message being a role and
\* a content; and hydrate changes the message list only: the input, answer
\* and context of the state after hydrate are those the caller passed, never
\* those of the turn that wrote the record.
C23_OnlyMessagesPersisted ==
  /\ [][\A p \in Procs :
          SetAccepted(p) =>
            /\ DOMAIN store'[ThreadKey(p)].json =
                 {"schemaVersion", "updatedAt", "messages"}
            /\ store'[ThreadKey(p)].json.schemaVersion = 1
            /\ HoldsList(store'[ThreadKey(p)], st[p].messages)
            /\ \A i \in 1..Len(store'[ThreadKey(p)].json.messages) :
                 /\ DOMAIN store'[ThreadKey(p)].json.messages[i] =
                      {"type", "data"}
                 /\ DOMAIN store'[ThreadKey(p)].json.messages[i].data =
                      {"content", "additional_kwargs",
                       "response_metadata"}]_vars
  /\ [][\A p \in Procs :
          HydrateReturned(p) =>
            /\ st'[p].input = st[p].input
            /\ st'[p].answer = st[p].answer
            /\ st'[p].context = st[p].context
            /\ st'[p].threadId = st[p].threadId]_vars

\* the second turn, called with a new state, restored the record the first
\* turn wrote (that turn had an answer and a context): its state after
\* hydrate has no answer and no context
C23_Witness ==
  /\ turns = 2
  /\ Hydrated(1)
  /\ obs[1].prior = <<>>
  /\ obs[1].raw.kind = "payload"
  /\ obs[1].raw.json.updatedAt = 1
  /\ obs[1].restored # <<>>
  /\ pc[1] = "ingest"
  /\ st[1].answer = None /\ st[1].context = None

\* ================================================================ answer
\* the rag stage of the turn of p has returned
Answered(p) == InSeq("rag", completed[p])

\* the chain's result of the turn of p has no answer and no output field
NoAnswerField(p) ==
  /\ obs[p].ragRes # None
  /\ obs[p].ragRes[1].answer = None
  /\ obs[p].ragRes[1].output = None

\* C24: when the chain's result has neither an answer nor an output field
\* the rag stage returns all the same: the answer is the empty string, the
\* context is the empty list when the result has none, one assistant message
\* with empty content is appended to the history, and the call resolves with
\* the empty answer.
C24_MissingAnswerIsEmpty ==
  \A p \in Procs :
    (Answered(p) /\ NoAnswerField(p))
    => /\ ~obs[p].ragErr
       /\ pc[p] # "rejected"
       /\ st[p].answer = Some(<<>>)
       /\ obs[p].ragRes[1].context = None => st[p].context = Some(<<>>)
       /\ obs[p].afterRag = Append(obs[p].afterIngest, AIMessage(<<>>))
       /\ pc[p] = END
            => /\ result[p].kind = "resolved"
               /\ result[p].answer = <<>>
               /\ result[p].context = <<>>

\* a turn whose chain result had no field at all has resolved with the
\* empty answer, after the question and the empty assistant message
C24_Witness ==
  /\ pc[1] = END
  /\ NoAnswerField(1)
  /\ obs[1].ragRes[1].context = None
  /\ result[1].kind = "resolved"
  /\ result[1].answer = <<>>
  /\ Len(obs[1].afterRag) >= 2
  /\ obs[1].afterRag[Len(obs[1].afterRag)] = AIMessage(<<>>)
  /\ obs[1].afterRag[Len(obs[1].afterRag) - 1] = HumanMessage(Q1)

\* ================================================== configuration module
\* loadConfigFile: the cached value when there is one; else the parsed file,
\* which it caches; null when the file is absent or cannot be parsed
loadConfigFile ==
  IF cachedConfig # JNull THEN cachedConfig
  ELSE IF configFile.t = "file" THEN configFile.json
  ELSE JNull

\* JavaScript truthiness of a value
Truthy(v) ==
  CASE v.t = "undefined" -> FALSE
    [] v.t = "null" -> FALSE
    [] v.t = "nan" -> FALSE
    [] v.t = "string" -> v.s # ""
    [] v.t = "number" -> v.n # 0
    [] v.t = "boolean" -> v.b
    [] OTHER -> TRUE

\* the loop over path.split("."): value[key] while value is an object that
\* has the key, undefined otherwise
RECURSIVE ValueAtPath(_, _)
ValueAtPath(value, keys) ==
  IF keys = <<>> THEN value
  ELSE IF Truthy(value) /\ value.t = "object" /\ Head(keys) \in DOMAIN value.o
       THEN ValueAtPath(value.o[Head(keys)], Tail(keys))
       ELSE JUndefined

\* Number(text) for the texts of the environment
NumberOfText(s) ==
  CASE s = "8" -> JNum(8)
    [] s = "0" -> JNum(0)
    [] OTHER -> JNaN

\* process.env[envVar]
EnvOf(env, envVar) ==
  IF envVar \in DOMAIN env THEN env[envVar] ELSE JUndefined

\* a getConfig that asks the environment before the file
getConfigEnvFirst(loadedFile, env, path, envVar, defaultValue) ==
  IF Truthy(EnvOf(env, envVar))
  THEN IF defaultValue.t = "number"
            /\ NumberOfText(EnvOf(env, envVar).s) # JNaN
       THEN NumberOfText(EnvOf(env, envVar).s)
       ELSE EnvOf(env, envVar)
  ELSE IF Truthy(loadedFile) /\ ValueAtPath(loadedFile, path) # JUndefined
  THEN ValueAtPath(loadedFile, path)
  ELSE defaultValue

\* getConfig(path, envVar, defaultValue), loadedFile being what
\* loadConfigFile returned
getConfig(loadedFile, env, path, envVar, defaultValue) ==
  IF Truthy(loadedFile) /\ ValueAtPath(loadedFile, path) # JUndefined
  THEN ValueAtPath(loadedFile, path)
  ELSE IF Truthy(EnvOf(env, envVar))
  THEN IF defaultValue.t = "number"
            /\ NumberOfText(EnvOf(env, envVar).s) # JNaN
       THEN NumberOfText(EnvOf(env, envVar).s)
       ELSE EnvOf(env, envVar)
  ELSE defaultValue

\* settings of the exported config object, in the order the module reads
\* them: a text, a number and a boolean default
Settings ==
  << [path |-> <<"ollama", "baseUrl">>, envVar |-> "OLLAMA_BASE_URL",
      defaultValue |-> JStr("http://127.0.0.1:11434")],
     [path |-> <<"retrieval", "topK">>, envVar |-> "TOP_K",
      defaultValue |-> JNum(4)],
     [path |-> <<"milvus", "ssl">>, envVar |-> "MILVUS_SSL",
      defaultValue |-> JBool(FALSE)] >>

EnvVars == {"OLLAMA_BASE_URL", "TOP_K", "MILVUS_SSL"}
EnvTexts == {JUndefined, JStr(""), JStr("8"), JStr("abc")}
Envs == [EnvVars -> EnvTexts] \cup {[v \in EnvVars |-> JStr("0")]}

\* contents of config.json
ConfigFiles ==
  { FileMissing, FileUnparsable, FileJson(JNull), FileJson(JStr("text")),
    FileJson(JObj([k \in {} |-> JNull])),
    FileJson(JObj(
      "ollama" :> JObj("baseUrl" :> JStr("http://h:1"))
      @@ "retrieval" :> JObj("topK" :> JNum(0))
      @@ "milvus" :> JObj("ssl" :> JBool(TRUE)))),
    FileJson(JObj(
      "ollama" :> JObj("chatModel" :> JStr("m"))
      @@ "retrieval" :> JStr("text")
      @@ "milvus" :> JObj("ssl" :> JNull))) }

\* the module evaluates the next getConfig call of its export
ExportSetting ==
  /\ Len(exported) < Len(Settings)
  /\ LET s == Settings[Len(exported) + 1]
     IN exported' =
          Append(exported,
            [path |-> s.path, envVar |-> s.envVar,
             defaultValue |-> s.defaultValue,
             value |-> getConfig(loadConfigFile, processEnv, s.path,
                                 s.envVar, s.defaultValue)])
  /\ cachedConfig' = loadConfigFile
  /\ UNCHANGED <<configFile, processEnv, cli, milvus>>
  /\ UNCHANGED qaVars

InitCfg ==
  /\ configFile \in ConfigFiles
  /\ processEnv \in Envs
  /\ cachedConfig = JNull
  /\ exported = <<>>
  /\ cli = CliIdle
  /\ milvus = MilvusIdle
  /\ config \in { c \in Configs : c.url = Undefined }
  /\ store = [k \in Keys |-> NoValue]
  /\ storeUp = TRUE
  /\ redisClientPromise = 0
  /\ attempts = <<>>
  /\ turns = 0
  /\ pc = [p \in Procs |-> "idle"]
  /\ at = [p \in Procs |-> "start"]
  /\ st = [p \in Procs |-> FreshState(Undefined)]
  /\ awaiting = [p \in Procs |-> 0]
  /\ trace = [p \in Procs |-> <<>>]
  /\ completed = [p \in Procs |-> <<>>]
  /\ gets = [p \in Procs |-> <<>>]
  /\ sets = [p \in Procs |-> <<>>]
  /\ result = [p \in Procs |-> NoResult]
  /\ obs = [p \in Procs |-> NoObs]

NextCfg == ExportSetting

SpecCfg == InitCfg /\ [][NextCfg]_vars

\* the config file holds an object with a value at the two-key path
DefinedInFile(path) ==
  /\ configFile.t = "file"
  /\ configFile.json.t = "object"
  /\ path[1] \in DOMAIN configFile.json.o
  /\ configFile.json.o[path[1]].t = "object"
  /\ path[2] \in DOMAIN configFile.json.o[path[1]].o

InFile(path) == configFile.json.o[path[1]].o[path[2]]

\* the environment variable is set to a non-empty text
EnvSet(envVar) ==
  processEnv[envVar].t = "string" /\ processEnv[envVar].s # ""

\* the texts of the environment that are numbers
NumericTexts == {"8", "0"}
NumberFor(s) == IF s = "8" THEN 8 ELSE 0

\* C25: each setting of the exported config is resolved with the precedence
\* config file, environment variable, default: a value at the path in the
\* config file is the result whatever the environment holds; otherwise a set,
\* non-empty environment variable is the result, as a number when the default
\* is a number and the text is numeric and as the text itself otherwise;
\* otherwise the default is the result.
C25_FileThenEnvThenDefault ==
  \A i \in 1..Len(exported) :
    LET e == exported[i]
    IN /\ e.path = Settings[i].path
       /\ IF DefinedInFile(e.path) THEN e.value = InFile(e.path)
          ELSE IF EnvSet(e.envVar)
          THEN IF e.defaultValue.t = "number"
                    /\ processEnv[e.envVar].s \in NumericTexts
               THEN e.value = JNum(NumberFor(processEnv[e.envVar].s))
               ELSE e.value = JStr(processEnv[e.envVar].s)
          ELSE e.value = e.defaultValue

\* the file gives topK = 0 and the environment TOP_K = "8": the file's
\* value is the result
C25_Witness ==
  /\ Len(exported) = 3
  /\ DefinedInFile(<<"retrieval", "topK">>)
  /\ processEnv["TOP_K"] = JStr("8")
  /\ exported[2].value = JNum(0)

\* nothing in the file: the text "8" of TOP_K becomes the number 8, the same
\* text stays a text for a setting whose default is a text, and a setting
\* without variable gets its default
C25_WitnessEnv ==
  /\ Len(exported) = 3
  /\ configFile = FileMissing
  /\ processEnv["TOP_K"] = JStr("8")
  /\ processEnv["OLLAMA_BASE_URL"] = JStr("8")
  /\ processEnv["MILVUS_SSL"] = JStr("")
  /\ exported[2].value = JNum(8)
  /\ exported[1].value = JStr("8")
  /\ exported[3].value = JBool(FALSE)

\* ======================================================= size of the record
\* the persist stage of the turn of p has started
PersistReached(p) == InSeq("persist", trace[p])

\* the estimate of the history handed to persist in the turn of p
EstimateOut(p) == estimateRedisValueBytes(obs[p].toPersist, 0)

\* C26 as claimed: after a summarization that produced output the history
\* handed to persist has an estimate at or below the threshold.
C26_Original ==
  \A p \in Procs :
    (ProducedOutput(p) /\ PersistReached(p) /\ ThresholdOn)
    => EstimateOut(p) <= config.maxValueBytes.v

\* C26: the threshold is a trigger, not a budget: after a summarization that
\* produced output the history handed to persist is the summarized one (the
\* system messages, one summary message and the keepLastN most recent
\* messages) and its size is not compared with the threshold again, so what
\* is bounded is its number of non-system messages, keepLastN + 1, while its
\* estimate can stay above the threshold.
C26_SummarizedHistoryIsPersisted ==
  \A p \in Procs :
    (ProducedOutput(p) /\ PersistReached(p) /\ ThresholdOn)
    => /\ obs[p].toPersist = obs[p].afterSummarize
       /\ SystemOf(obs[p].toPersist) = SystemOf(obs[p].afterRag)
       /\ Len(NonSystemOf(obs[p].toPersist)) = ConfiguredKeep + 1
       /\ Len(NonSystemOf(obs[p].toPersist))
            <= Len(NonSystemOf(obs[p].afterRag))

\* under a threshold of 223 a summarized history was saved whose estimate
\* is above 223
C26_Witness ==
  /\ pc[1] = END
  /\ ProducedOutput(1)
  /\ config.maxValueBytes = Num(223)
  /\ EstimateOut(1) > 223
  /\ sets[1] # <<>> /\ ~obs[1].persistErr
  /\ HoldsList(store[ThreadKey(1)], obs[1].afterSummarize)

\* some message of msgs has a paired <think> segment in its content
HasMarkup(msgs) == \E i \in 1..Len(msgs) : HasPair(msgs[i].content)

\* C27: the estimate of the summarize stage is taken on the payload persist
\* builds: when a threshold is set and summarize leaves the history
\* unchanged, the byte length of the value an accepted save writes in that
\* turn equals the estimate of the history summarize received, <think>
\* segments being stripped in both.
C27_EstimateIsStoredSize ==
  [][\A p \in Procs :
       (/\ SetAccepted(p)
        /\ ThresholdOn
        /\ obs[p].afterSummarize = obs[p].afterRag)
       => /\ JsonBytes(store'[ThreadKey(p)].json) = EstimateIn(p)
          /\ store'[ThreadKey(p)].json.messages =
               mapMessagesForStorage(obs[p].afterRag)]_vars

\* under a threshold of 230 a turn whose answer carries a <think> segment
\* passed summarize unchanged (estimate 223) and its save wrote 223 bytes
C27_Witness ==
  /\ pc[1] = END
  /\ ThresholdOn
  /\ obs[1].mw = "notcalled"
  /\ obs[1].afterSummarize = obs[1].afterRag
  /\ HasMarkup(obs[1].afterRag)
  /\ sets[1] # <<>> /\ ~obs[1].persistErr
  /\ EstimateIn(1) = 223
  /\ JsonBytes(store[ThreadKey(1)].json) = 223

\* =============================================== a turn that was not saved
\* some message of msgs has the content c
HasContent(msgs, c) == \E i \in 1..Len(msgs) : msgs[i].content = c

\* the question of the turn before, the last but one message of the
\* history the caller passed back
LostQuestion(p) == obs[p].prior[Len(obs[p].prior) - 1].content

\* the persist of the turn before failed, the caller passed the state that
\* turn returned, and this turn's hydrate read an older non-empty history
\* that does not hold the question of the turn before
AfterLostTurn(p) ==
  /\ obs[p].prevPersistErr
  /\ Len(obs[p].prior) >= 2
  /\ Hydrated(p)
  /\ obs[p].raw.kind = "payload"
  /\ Len(obs[p].raw.json.messages) > 0
  /\ ~HasContent(LoadResult(obs[p].raw), LostQuestion(p))

\* C28: after a turn whose persist failed, when the next turn of the thread
\* reads an older non-empty history from the store, hydrate replaces the
\* history the caller passed (which holds the unsaved exchange) by the stored
\* one; unless the same question is asked again, the unsaved question is in
\* no message of this turn's history and not in the record this turn saves.
C28_UnsavedTurnIsDropped ==
  \A p \in Procs :
    AfterLostTurn(p)
    => /\ HasContent(obs[p].prior, LostQuestion(p))
       /\ obs[p].afterHydrate = LoadResult(obs[p].raw)
       /\ st[p].input # LostQuestion(p)
            => /\ ~HasContent(st[p].messages, LostQuestion(p))
               /\ (pc[p] = END /\ sets[p] # <<>> /\ ~obs[p].persistErr)
                    => ~StoredHas(ThreadKey(p), LostQuestion(p))

\* the first turn asked Q1 and its save failed; the second turn asked Q2 on
\* the state the first returned, found the earlier history, and saved a
\* record with Q2 and without Q1
C28_Witness ==
  /\ turns = 2
  /\ AfterLostTurn(1)
  /\ LostQuestion(1) = Q1
  /\ pc[1] = END
  /\ sets[1] # <<>> /\ ~obs[1].persistErr
  /\ StoredHas(ThreadKey(1), Q2)
  /\ StoredHas(ThreadKey(1), Old1)
  /\ ~StoredHas(ThreadKey(1), Q1)
  /\ ~HasContent(result[1].state.messages, Q1)

\* ------------------------------------------------------ the command line
\* input.trim(): the line without its leading and trailing white space
RECURSIVE TrimEnd(_)
TrimEnd(s) ==
  IF s = <<>> THEN <<>>
  ELSE IF IsSpace(s[Len(s)]) THEN TrimEnd(SubSeq(s, 1, Len(s) - 1))
  ELSE s

Trim(s) == TrimEnd(SubSeq(s, SkipSpace(s, 1), Len(s)))

ExitCommand == <<"e", "x", "i", "t">>
ShowCommand == <<"s", "h", "o", "w">>
RebuildCommand == <<"r", "e", "b", "u", "i", "l", "d">>
Commands == {ExitCommand, ShowCommand, RebuildCommand}

\* what a user types at the prompt
Lines ==
  { <<>>, <<" ">>, Q1, <<" ">> \o Q1 \o <<" ">>, Q2 \o <<"\n">>,
    ExitCommand, <<" ", "E", "X", "I", "T">>, <<"e", "x", "i", "t", "s">>,
    ShowCommand, RebuildCommand }

\* ask(ragApp, state, question) calls ragApp.invoke({ ...state, input: question }):
\* the object it passes, a parameter the caller left out being None
InvokeArgument(state, question) == [spread |-> state, input |-> question]

\* loop(): rl.question is called, one more prompt is outstanding
Loop(c) == [c EXCEPT !.prompts = @ + 1, !.issued = @ + 1]

\* a piece of work (the promise chain of ask, show or rebuild) is started
Starts(c, w) == [c EXCEPT !.work[w] = @ + 1]

\* the line is read: readline holds one question callback, which the line
\* consumes together with every prompt printed for it
Read(c, input) ==
  [c EXCEPT !.prompts = 0, !.issued = 0, !.lines = @ + 1, !.line = input,
            !.q = Trim(input)]

\* ask(ragChain, q) as the loop calls it
AskChain(c, q) ==
  [Starts(c, "ask") EXCEPT !.invoked = Append(@, InvokeArgument(q, None))]

\* the callback of rl.question in cli.js on the line input
LineHandled(c, input) ==
  LET q == Trim(input)
      read == Read(c, input)
  IN IF q = <<>> THEN Loop(read)
     ELSE IF LowerSeq(q) = ExitCommand THEN [read EXCEPT !.closed = TRUE]
     ELSE IF LowerSeq(q) = ShowCommand THEN Starts(read, "show")
     ELSE IF LowerSeq(q) = RebuildCommand THEN Starts(read, "rebuild")
     ELSE AskChain(read, q)

\* the callback of rl.question in the first version of the loop: no show
\* command, and after starting the rebuild the callback goes on to ask
LineHandledFirstVersion(c, input) ==
  LET q == Trim(input)
      read == Read(c, input)
  IN IF q = <<>> THEN Loop(read)
     ELSE IF LowerSeq(q) = ExitCommand THEN [read EXCEPT !.closed = TRUE]
     ELSE IF LowerSeq(q) = RebuildCommand
          THEN AskChain(Starts(read, "rebuild"), q)
     ELSE AskChain(read, q)

\* a line is typed at an outstanding prompt of cli.js
CliLine ==
  /\ cli.prompts > 0
  /\ ~cli.closed
  /\ cli.lines < MaxLines
  /\ \E input \in Lines : cli' = LineHandled(cli, input)
  /\ UNCHANGED <<configFile, processEnv, cachedConfig, exported, milvus>>
  /\ UNCHANGED qaVars

\* a line is typed at an outstanding prompt of the first version
CliLineFirstVersion ==
  /\ cli.prompts > 0
  /\ ~cli.closed
  /\ cli.lines < MaxLines
  /\ \E input \in Lines : cli' = LineHandledFirstVersion(cli, input)
  /\ UNCHANGED <<configFile, processEnv, cachedConfig, exported, milvus>>
  /\ UNCHANGED qaVars

\* an ask whose catch handler also calls loop()
AskSettledLoopsInCatch(c, outcome) ==
  LET done == [c EXCEPT !.work.ask = @ - 1, !.printed = Append(@, outcome)]
  IN IF outcome.kind = "error" THEN Loop(Loop(done)) ELSE Loop(done)

\* then / catch / finally of ask: the answer or the error is printed, then
\* loop()
AskSettled(c, outcome) ==
  Loop([c EXCEPT !.work.ask = @ - 1, !.printed = Append(@, outcome)])

\* the promise of ask settles
CliAskSettles ==
  /\ cli.work.ask > 0
  /\ \E outcome \in {[kind |-> "answer", text |-> A1],
                     [kind |-> "answer", text |-> <<>>],
                     [kind |-> "error", text |-> <<>>]} :
       cli' = AskSettled(cli, outcome)
  /\ UNCHANGED <<configFile, processEnv, cachedConfig, exported, milvus>>
  /\ UNCHANGED qaVars

\* showVectorStore settles: the records or the failure are printed, then loop()
CliShowSettles ==
  /\ cli.work.show > 0
  /\ \E kind \in {"records", "error"} :
       cli' = Loop([cli EXCEPT
                      !.work.show = @ - 1,
                      !.printed = Append(@, [kind |-> kind, text |-> <<>>])])
  /\ UNCHANGED <<configFile, processEnv, cachedConfig, exported, milvus>>
  /\ UNCHANGED qaVars

\* the rebuild settles: on success the chain's invoke is replaced, then loop()
CliRebuildSettles ==
  /\ cli.work.rebuild > 0
  /\ \E ok \in BOOLEAN :
       cli' = Loop([cli EXCEPT
                      !.work.rebuild = @ - 1,
                      !.rebuilt = IF ok THEN @ + 1 ELSE @,
                      !.printed =
                        Append(@, [kind |-> IF ok THEN "rebuilt" ELSE "error",
                                   text |-> <<>>])])
  /\ UNCHANGED <<configFile, processEnv, cachedConfig, exported, milvus>>
  /\ UNCHANGED qaVars

InitCli ==
  /\ config \in { c \in Configs : c.url = Undefined }
  /\ store = [k \in Keys |-> NoValue]
  /\ storeUp = TRUE
  /\ redisClientPromise = 0
  /\ attempts = <<>>
  /\ turns = 0
  /\ pc = [p \in Procs |-> "idle"]
  /\ at = [p \in Procs |-> "start"]
  /\ st = [p \in Procs |-> FreshState(Undefined)]
  /\ awaiting = [p \in Procs |-> 0]
  /\ trace = [p \in Procs |-> <<>>]
  /\ completed = [p \in Procs |-> <<>>]
  /\ gets = [p \in Procs |-> <<>>]
  /\ sets = [p \in Procs |-> <<>>]
  /\ result = [p \in Procs |-> NoResult]
  /\ obs = [p \in Procs |-> NoObs]
  /\ OuterIdle

NextCli ==
  \/ CliLine
  \/ CliAskSettles
  \/ CliShowSettles
  \/ CliRebuildSettles

SpecCli == InitCli /\ [][NextCli]_vars

\* the first version of the loop: exit, rebuild and questions
NextCliFirstVersion ==
  \/ CliLineFirstVersion
  \/ CliAskSettles
  \/ CliRebuildSettles

SpecCliFirstVersion == InitCli /\ [][NextCliFirstVersion]_vars

\* the last typed line is a question: not blank and not a command
IsQuestion(q) == q # <<>> /\ LowerSeq(q) \notin Commands

\* C29: for every non-empty typed line that is not a command, the chain is
\* invoked with its input equal to the trimmed line
C29_ChainGetsTrimmedLine ==
  (cli.work.ask > 0 /\ IsQuestion(Trim(cli.line)))
  => /\ cli.invoked # <<>>
     /\ cli.invoked[Len(cli.invoked)].input = Some(Trim(cli.line))

\* the connection attempts still in flight
PendingAttempts == {a \in 1..Len(attempts) : attempts[a] = "pending"}

\* the outcome caller p has seen of the attempt it last awaited, if it has
\* resumed from that await: after hydrate and before persist calls
\* getRedisClient it is the outcome hydrate saw, at END the one persist saw
Observed(p) ==
  IF pc[p] \in {"ingest", "rag", "summarize"}
       \/ (pc[p] = "persist" /\ at[p] = "start")
  THEN Some(obs[p].connHydrate)
  ELSE IF pc[p] = END THEN Some(obs[p].connPersist)
  ELSE None

\* caller p calls getRedisClient in this step
CallsGetRedisClient(p) ==
  /\ pc[p] \in {"hydrate", "persist"}
  /\ at[p] = "start"
  /\ at'[p] = "client"

\* C30: at any moment at most one connection attempt is in flight, and the
\* cache holds it; a caller of getRedisClient that arrives while an attempt is
\* pending starts no attempt and awaits that one; a settled attempt keeps its
\* outcome, and two callers that awaited the same attempt have seen the same
\* outcome, the one the attempt settled to; and the cache is cleared only by
\* the failure of the attempt it holds, never while it holds a newer one.
C30_OneConnectInFlight ==
  /\ [](Cardinality(PendingAttempts) <= 1)
  /\ [](\A a \in PendingAttempts : redisClientPromise = a)
  /\ [][\A p \in ProcsConc :
          (CallsGetRedisClient(p) /\ PendingAttempts # {}) =>
            /\ attempts' = attempts
            /\ awaiting'[p] \in PendingAttempts
            /\ redisClientPromise' = redisClientPromise]_vars
  /\ [][\A a \in 1..Len(attempts) :
          attempts[a] # "pending" => attempts'[a] = attempts[a]]_vars
  /\ [](\A p \in ProcsConc :
          Observed(p) # None =>
            /\ Observed(p)[1] = attempts[awaiting[p]]
            /\ \A q \in ProcsConc :
                 (Observed(q) # None /\ awaiting[q] = awaiting[p]) =>
                   Observed(q) = Observed(p))
  /\ [][(redisClientPromise # 0 /\ redisClientPromise' = 0) =>
          /\ attempts[redisClientPromise] = "pending"
          /\ attempts'[redisClientPromise] = "rejected"]_vars
  /\ [][\A a \in 1..Len(attempts) :
          (attempts[a] = "pending" /\ attempts'[a] = "rejected") =>
            redisClientPromise = a]_vars

\* both callers awaited the first attempt while it was pending and saw it
\* fail; caller 1 has since started a newer attempt, which the cache holds
C30_Witness ==
  /\ awaiting[2] = 1
  /\ Observed(2) = Some("rejected")
  /\ obs[1].connHydrate = "rejected"
  /\ attempts[1] = "rejected"
  /\ pc[1] = "persist" /\ at[1] = "client"
  /\ awaiting[1] = 2
  /\ PendingAttempts = {2}
  /\ redisClientPromise = 2

\* both callers awaited one attempt and both got the client
C30_WitnessShared ==
  /\ awaiting[1] = awaiting[2]
  /\ Observed(1) = Some("fulfilled")
  /\ Observed(2) = Some("fulfilled")
  /\ Len(attempts) = 1

\* ========================================================= returned answer
\* C31: a resolved ask returns the answer and the context that the rag stage
\* of the same invocation produced from the chain's result, also in the
\* returned state, whatever answer and context the state passed in carried.
C31_AnswerIsOfThisTurn ==
  \A p \in Procs :
    result[p].kind = "resolved"
    => /\ obs[p].ragRes # None
       /\ result[p].answer = AnswerOf(obs[p].ragRes[1])
       /\ result[p].context = ContextOf(obs[p].ragRes[1])
       /\ result[p].state.answer = Some(AnswerOf(obs[p].ragRes[1]))
       /\ result[p].state.context = Some(ContextOf(obs[p].ragRes[1]))

\* the caller passed the hand-built state, which carries the answer "old" and
\* one chunk of context; the chain's result had no field, and the call
\* resolved with the empty answer and the empty context
C31_Witness ==
  /\ result[1].kind = "resolved"
  /\ obs[1].prior = KeptState("t1").messages
  /\ KeptState("t1").answer = Some(Old1)
  /\ NoAnswerField(1)
  /\ obs[1].ragRes[1].context = None
  /\ result[1].answer = <<>>
  /\ result[1].context = <<>>

\* the state returned by the first turn was passed to the second, whose
\* answer differs from the first
C31_WitnessNextTurn ==
  /\ turns = 2
  /\ result[1].kind = "resolved"
  /\ \E i \in 1..Len(obs[1].prior) : obs[1].prior[i] = AIMessage(AThink)
  /\ result[1].answer = A1
  /\ result[1].context = <<Chunk1>>

\* ================================================================ metadata
\* Messages that carry metadata: a reasoning trace under the key think next
\* to other keys, in additional_kwargs and in response_metadata.
KwargsThink == {<<"think", "t">>, <<"model", "m">>}
MetaThink == {<<"think", "r">>, <<"usage", "u">>}
AIThinking == MsgWith("ai", AThink, KwargsThink, MetaThink)
HumanTagged == MsgWith("human", Old1, {<<"model", "m">>}, {})

\* a state whose messages the caller built with metadata
MetaState(t) ==
  [messages |-> <<HumanTagged, AIThinking>>, threadId |-> t, input |-> <<>>,
   answer |-> None, context |-> None]

PriorStatesMeta(p) ==
  {FreshState("t1"), MetaState("t1")}
    \cup (IF result[p].kind = "resolved" THEN {result[p].state} ELSE {})

\* nothing stored, or a record another writer left with its think fields
InitialStoresMeta ==
  { [k \in Keys |-> NoValue],
    [k \in Keys |->
       RedisSet(JsonStringify([schemaVersion |-> 1, updatedAt |-> 0,
                               messages |-> <<ToStored(AIThinking)>>]),
                None)] }

\* the store is configured; the threshold is unset, far above every history,
\* or low enough for the longer histories to be summarized
ConfigsMeta ==
  { [url |-> RedisUrl, keyPrefix |-> Undefined, maxValueBytes |-> b,
     summaryKeepLastN |-> Num(1), ttlSeconds |-> Unset] :
      b \in {Unset, Num(1000), Num(400)} }

InitMeta ==
  /\ config \in ConfigsMeta
  /\ store \in InitialStoresMeta
  /\ storeUp = TRUE
  /\ OuterIdle
  /\ redisClientPromise = 0
  /\ attempts = <<>>
  /\ turns = 0
  /\ pc = [p \in Procs |-> "idle"]
  /\ at = [p \in Procs |-> "start"]
  /\ st = [p \in Procs |-> FreshState(Undefined)]
  /\ awaiting = [p \in Procs |-> 0]
  /\ trace = [p \in Procs |-> <<>>]
  /\ completed = [p \in Procs |-> <<>>]
  /\ gets = [p \in Procs |-> <<>>]
  /\ sets = [p \in Procs |-> <<>>]
  /\ result = [p \in Procs |-> NoResult]
  /\ obs = [p \in Procs |-> NoObs]

NextMeta ==
  \/ \E p \in Procs : \E s \in PriorStatesMeta(p) : Ask(p, s, Q1)
  \/ \E p \in Procs : HydrateStart(p)
  \/ \E a \in 1..MaxAttempts : ConnectSettles(a)
  \/ \E p \in Procs : HydrateLoad(p)
  \/ \E p \in Procs : Ingest(p)
  \/ \E p \in Procs :
       RagReturns(p, [answer |-> Some(AThink), output |-> None,
                      context |-> Some(<<Chunk1>>)])
  \/ \E p \in Procs : \E mw \in {"none", "summary"} : Summarize(p, mw)
  \/ \E p \in Procs : PersistStart(p)
  \/ \E p \in Procs : PersistSave(p)
  \/ StoreFails
  \/ StoreRecovers

SpecMeta == InitMeta /\ [][NextMeta]_vars

\* a metadata object without its think key
WithoutThink(obj) == obj \ {kv \in obj : kv[1] = "think"}

\* the stored message sm is the in-memory message m with the same role, the
\* same metadata keys and values other than think, and the stripped content
StoredCopyOf(sm, m) ==
  /\ sm.type = m.type
  /\ sm.data.content = stripThinkFromContent(m.content)
  /\ sm.data.additional_kwargs = WithoutThink(m.additional_kwargs)
  /\ sm.data.response_metadata = WithoutThink(m.response_metadata)

\* some message of msgs carries a think key and a <think> segment
HasThinkMetadata(msgs) ==
  \E i \in 1..Len(msgs) :
    /\ \E kv \in msgs[i].additional_kwargs : kv[1] = "think"
    /\ \E kv \in msgs[i].response_metadata : kv[1] = "think"
    /\ HasPair(msgs[i].content)

\* C32: sanitization touches the stored value only. The persist stage, on
\* success and on failure, returns the message list it received; the
\* summarize stage, when its size estimate does not lead to a summary,
\* returns the list it received; the state ask returns holds the list as
\* summarize left it, think fields and <think> segments included; and an
\* accepted save stores, message by message and in the same order, the same
\* role and the same metadata keys and values except think.
C32_SanitizeOnlyStoredCopy ==
  /\ [][\A p \in Procs :
          (pc[p] = "persist" /\ pc'[p] = END) =>
            /\ st'[p].messages = st[p].messages
            /\ result'[p].state.messages = obs[p].afterSummarize]_vars
  /\ [][\A p \in Procs :
          (pc[p] = "persist" /\ pc'[p] = "persist") =>
            st'[p].messages = st[p].messages]_vars
  /\ [][\A p \in Procs :
          (pc[p] = "summarize" /\ pc'[p] = "persist" /\ ThresholdOn
             /\ obs'[p].mw \in {"notcalled", "none"}) =>
            st'[p].messages = st[p].messages]_vars
  /\ [][\A p \in Procs :
          SetAccepted(p) =>
            /\ store'[ThreadKey(p)].kind = "payload"
            /\ Len(store'[ThreadKey(p)].json.messages) = Len(st[p].messages)
            /\ \A i \in 1..Len(st[p].messages) :
                 StoredCopyOf(store'[ThreadKey(p)].json.messages[i],
                              st[p].messages[i])]_vars

\* a turn with a threshold set and no summary has ended: the returned state
\* still has a message with think fields and a <think> segment, and the
\* stored copy of that message has the other keys and neither think field
C32_Witness ==
  /\ pc[1] = END
  /\ ThresholdOn
  /\ obs[1].mw = "notcalled"
  /\ sets[1] # <<>> /\ ~obs[1].persistErr
  /\ result[1].kind = "resolved"
  /\ HasThinkMetadata(result[1].state.messages)
  /\ store[ThreadKey(1)].kind = "payload"
  /\ \E i \in 1..Len(store[ThreadKey(1)].json.messages) :
       /\ result[1].state.messages[i] = AIThinking
       /\ store[ThreadKey(1)].json.messages[i].data.additional_kwargs =
            {<<"model", "m">>}
       /\ store[ThreadKey(1)].json.messages[i].data.response_metadata =
            {<<"usage", "u">>}
       /\ ~HasPair(store[ThreadKey(1)].json.messages[i].data.content)

\* ============================================================ vector store
\* buildOrLoadVectorStore against a Milvus server whose calls may each
\* resolve or reject. The file holds two versions of the function: the async
\* one with a try / catch around the whole body, and the promise one.
Versions == {"async", "promise"}
DocCounts == {0, 2}

\* the call settles: resolved with the vector store, or rejected
BuildSettles(m, outcome) == [m EXCEPT !.at = "idle", !.outcome = outcome]

\* buildOrLoadVectorStore(documents, options) is called
BuildCall ==
  /\ milvus.at = "idle"
  /\ milvus.calls < MaxBuilds
  /\ \E v \in Versions : \E n \in DocCounts :
       milvus' = [milvus EXCEPT !.at = "check", !.version = v, !.docs = n,
                                !.existed = milvus.exists,
                                !.outcome = "none", !.calls = @ + 1]
  /\ UNCHANGED <<configFile, processEnv, cachedConfig, exported, cli>>
  /\ UNCHANGED qaVars

\* checkCollectionExists: res.value === true, or false when hasCollection
\* rejects; then the branch on exists and on the documents
CheckCollectionExists ==
  /\ milvus.at = "check"
  /\ \E ok \in BOOLEAN :
       LET exists == ok /\ milvus.exists
       IN milvus' =
            IF exists
            THEN IF milvus.version = "async"
                 THEN [milvus EXCEPT !.at = "load"]
                 ELSE BuildSettles(milvus, "resolved")
            ELSE IF milvus.docs = 0
            THEN IF milvus.version = "async"
                 THEN [milvus EXCEPT !.at = "catch"]
                 ELSE BuildSettles(milvus, "rejected")
            ELSE IF milvus.version = "async"
                 THEN [milvus EXCEPT !.at = "ensure"]
                 ELSE [milvus EXCEPT !.at = "add"]
  /\ UNCHANGED <<configFile, processEnv, cachedConfig, exported, cli>>
  /\ UNCHANGED qaVars

\* async version, collection found: await loadCollectionSync, return
LoadExisting ==
  /\ milvus.at = "load"
  /\ \E ok \in BOOLEAN :
       milvus' = IF ok THEN BuildSettles(milvus, "resolved")
                 ELSE [milvus EXCEPT !.at = "catch"]
  /\ UNCHANGED <<configFile, processEnv, cachedConfig, exported, cli>>
  /\ UNCHANGED qaVars

\* ensureCollection: hasCollection again, then the dimension probe,
\* createCollection, createIndex and loadCollectionSync
EnsureCollection ==
  /\ milvus.at = "ensure"
  /\ \E step \in {"checkFails", "present", "probeFails", "createFails",
                  "indexFails", "created"} :
       /\ step = "present" => milvus.exists
       /\ step \in {"probeFails", "createFails", "indexFails", "created"}
            => ~milvus.exists
       /\ milvus' =
            CASE step \in {"checkFails", "probeFails", "createFails"} ->
                   [milvus EXCEPT !.at = "catch"]
              [] step = "present" -> [milvus EXCEPT !.at = "add"]
              [] step = "indexFails" ->
                   [milvus EXCEPT !.at = "catch", !.exists = TRUE, !.rows = 0]
              [] step = "created" ->
                   [milvus EXCEPT !.at = "add", !.exists = TRUE, !.rows = 0]
  /\ UNCHANGED <<configFile, processEnv, cachedConfig, exported, cli>>
  /\ UNCHANGED qaVars

\* vectorStore.addDocuments(documents): the documents are inserted, into a
\* collection it creates when there is none, or the call rejects
AddDocuments ==
  /\ milvus.at = "add"
  /\ \E ok \in BOOLEAN :
       milvus' =
         IF ok
         THEN [BuildSettles(milvus, "resolved") EXCEPT
                 !.exists = TRUE, !.rows = @ + milvus.docs]
         ELSE IF milvus.version = "async"
              THEN [milvus EXCEPT !.at = "catch"]
              ELSE [milvus EXCEPT !.at = "drop"]
  /\ UNCHANGED <<configFile, processEnv, cachedConfig, exported, cli>>
  /\ UNCHANGED qaVars

\* dropCollection on the server: the collection and its rows are gone, or
\* the call rejects and nothing changes
DropCollection(m, ok) ==
  IF ok THEN [m EXCEPT !.exists = FALSE, !.rows = 0] ELSE m

\* async version, catch (err): await deleteVectorStore(options).catch(() =>
\* {}), then throw err
CatchDelete ==
  /\ milvus.at = "catch"
  /\ \E ok \in BOOLEAN :
       milvus' = BuildSettles(DropCollection(milvus, ok), "rejected")
  /\ UNCHANGED <<configFile, processEnv, cachedConfig, exported, cli>>
  /\ UNCHANGED qaVars

\* promise version, addDocuments rejected: dropCollection, its failure
\* ignored
DropForRetry ==
  /\ milvus.at = "drop"
  /\ \E ok \in BOOLEAN :
       milvus' = [DropCollection(milvus, ok) EXCEPT !.at = "readd"]
  /\ UNCHANGED <<configFile, processEnv, cachedConfig, exported, cli>>
  /\ UNCHANGED qaVars

\* promise version: addDocuments on a new vector store; a rejection is the
\* rejection of the call
AddAgain ==
  /\ milvus.at = "readd"
  /\ \E ok \in BOOLEAN :
       milvus' =
         IF ok
         THEN [BuildSettles(milvus, "resolved") EXCEPT
                 !.exists = TRUE, !.rows = @ + milvus.docs]
         ELSE BuildSettles(milvus, "rejected")
  /\ UNCHANGED <<configFile, processEnv, cachedConfig, exported, cli>>
  /\ UNCHANGED qaVars

\* the vector store specification starts from either server state
InitVectorStore ==
  /\ config \in { c \in Configs : c.url = Undefined }
  /\ store = [k \in Keys |-> NoValue]
  /\ storeUp = TRUE
  /\ redisClientPromise = 0
  /\ attempts = <<>>
  /\ turns = 0
  /\ pc = [p \in Procs |-> "idle"]
  /\ at = [p \in Procs |-> "start"]
  /\ st = [p \in Procs |-> FreshState(Undefined)]
  /\ awaiting = [p \in Procs |-> 0]
  /\ trace = [p \in Procs |-> <<>>]
  /\ completed = [p \in Procs |-> <<>>]
  /\ gets = [p \in Procs |-> <<>>]
  /\ sets = [p \in Procs |-> <<>>]
  /\ result = [p \in Procs |-> NoResult]
  /\ obs = [p \in Procs |-> NoObs]
  /\ configFile = FileMissing
  /\ processEnv = [v \in {} |-> JUndefined]
  /\ cachedConfig = JNull
  /\ exported = <<>>
  /\ cli = CliIdle
  /\ milvus \in {MilvusIdle, [MilvusIdle EXCEPT !.exists = TRUE, !.rows = 3]}

NextVectorStore ==
  \/ BuildCall
  \/ CheckCollectionExists
  \/ LoadExisting
  \/ EnsureCollection
  \/ AddDocuments
  \/ CatchDelete
  \/ DropForRetry
  \/ AddAgain

SpecVectorStore == InitVectorStore /\ [][NextVectorStore]_vars

\* C33: buildOrLoadVectorStore never drops a collection that existed when it
\* was called: during the call and after it has settled, whatever step
\* failed, that collection is in place with its rows.
C33_ExistingCollectionKept ==
  (milvus.calls > 0 /\ milvus.existed) => milvus.exists

\* ============================================================ prompt loop
\* C34: in the loop of cli.js at most one prompt is outstanding and at most
\* one piece of work is in flight; a prompt is outstanding only when no work
\* is in flight; once the work of a line other than exit is over, exactly one
\* prompt has been issued for that line; and after exit the reader is closed
\* with no prompt and no work.
C34_OnePromptPerLine ==
  /\ cli.prompts <= 1
  /\ cli.issued <= 1
  /\ cli.work.ask + cli.work.show + cli.work.rebuild <= 1
  /\ cli.prompts > 0 => cli.work = NoWork
  /\ (~cli.closed /\ cli.work = NoWork) => (cli.prompts = 1 /\ cli.issued = 1)
  /\ cli.closed => (cli.prompts = 0 /\ cli.issued = 0 /\ cli.work = NoWork)

\* a question was asked and printed, then a rebuild failed, and its one
\* prompt is outstanding
C34_Witness ==
  /\ cli.lines = 2
  /\ cli.q = RebuildCommand
  /\ Len(cli.invoked) = 1
  /\ Len(cli.printed) = 2
  /\ cli.printed[2].kind = "error"
  /\ cli.work = NoWork
  /\ cli.prompts = 1
  /\ cli.issued = 1

\* a blank line, then exit in capitals with a leading blank: the reader is
\* closed
C34_WitnessExit ==
  /\ cli.lines = 2
  /\ cli.closed
  /\ cli.line = <<" ", "E", "X", "I", "T">>
  /\ cli.prompts = 0

\* C35: in the first version of the loop the line "rebuild" is handled only
\* as a rebuild: it is never passed to the chain as a question, and it causes
\* exactly one new prompt.
C35_RebuildOnlyRebuilds ==
  /\ \A i \in 1..Len(cli.invoked) :
       LowerSeq(cli.invoked[i].spread) # RebuildCommand
  /\ (cli.lines > 0 /\ LowerSeq(cli.q) = RebuildCommand) => cli.issued <= 1

====
